---- MODULE Spec2Model ----
(***************************************************************************)
(* Shift Automator: the batch orchestrator (src/src/main.py), the Word     *)
(* automation session and print job (src/src/word_processor.py) and the    *)
(* scheduling rules (src/src/scheduler.py).                                *)
(***************************************************************************)
EXTENDS Integers, Sequences, FiniteSets, TLC

(***************************************************************************)
(* Calendar dates (datetime.date): records [year, month, day].             *)
(***************************************************************************)
THURSDAY == 3

MAX_DAYS_RANGE == 365

COM_RETRIES == 5

\* Years and months the scheduling checks draw their dates from.
SchedYears == {2024, 2026}

MaxMonth == 2

IsLeap(y) == (y % 4 = 0) /\ ((y % 100 # 0) \/ (y % 400 = 0))

DaysInMonth(y, m) ==
    IF m = 2 THEN (IF IsLeap(y) THEN 29 ELSE 28)
    ELSE IF m \in {4, 6, 9, 11} THEN 30 ELSE 31

RECURSIVE DaysBeforeMonth(_, _)
DaysBeforeMonth(y, m) ==
    IF m = 1 THEN 0 ELSE DaysBeforeMonth(y, m - 1) + DaysInMonth(y, m - 1)

DaysBeforeYear(y) ==
    (y - 1) * 365 + ((y - 1) \div 4) - ((y - 1) \div 100) + ((y - 1) \div 400)

\* date.toordinal()
ToOrdinal(dt) == DaysBeforeYear(dt.year) + DaysBeforeMonth(dt.year, dt.month) + dt.day

\* date.weekday(): Monday = 0 .. Sunday = 6
Weekday(dt) == (ToOrdinal(dt) + 6) % 7

MkDate(y, m, d) == [year |-> y, month |-> m, day |-> d]

\* dt + timedelta(days=1)
NextDay(dt) ==
    IF dt.day < DaysInMonth(dt.year, dt.month) THEN MkDate(dt.year, dt.month, dt.day + 1)
    ELSE IF dt.month < 12 THEN MkDate(dt.year, dt.month + 1, 1)
    ELSE MkDate(dt.year + 1, 1, 1)

\* dt + timedelta(days=i), i >= 0
RECURSIVE AddDays(_, _)
AddDays(dt, i) == IF i = 0 THEN dt ELSE AddDays(NextDay(dt), i - 1)

(***************************************************************************)
(* scheduler.py                                                            *)
(***************************************************************************)
EN_DAY_NAMES ==
    <<"Monday", "Tuesday", "Wednesday", "Thursday", "Friday", "Saturday", "Sunday">>

get_english_day_name(dt) == EN_DAY_NAMES[Weekday(dt) + 1]

is_third_thursday_NoWeekday(dt) == 15 <= dt.day /\ dt.day <= 21

is_third_thursday_UpTo22(dt) ==
    IF Weekday(dt) # THURSDAY THEN FALSE
    ELSE 15 <= dt.day /\ dt.day <= 22

is_third_thursday(dt) ==
    IF Weekday(dt) # THURSDAY THEN FALSE
    ELSE 15 <= dt.day /\ dt.day <= 21

\* The result of a call: the value returned, or the exception raised.
Returned(v) == [raised |-> "", value |-> v]
Raised(e) == [raised |-> e, value |-> ""]

get_shift_template_name(dt, shift_type) ==
    IF shift_type \notin {"day", "night"} THEN Raised("ValueError")
    ELSE IF shift_type = "day"
         THEN Returned(IF is_third_thursday(dt) THEN "THIRD Thursday"
                       ELSE get_english_day_name(dt))
         ELSE Returned(get_english_day_name(dt) \o " Night")

validate_date_range(start, end) ==
    IF ToOrdinal(end) < ToOrdinal(start) THEN "End date cannot be before start date"
    ELSE IF (ToOrdinal(end) - ToOrdinal(start)) + 1 > MAX_DAYS_RANGE
         THEN "Date range exceeds maximum allowed"
         ELSE ""

get_date_range_Exclusive(start, end) ==
    IF validate_date_range(start, end) # "" THEN Raised("ValueError")
    ELSE Returned([i \in 1..(ToOrdinal(end) - ToOrdinal(start)) |-> AddDays(start, i - 1)])

get_date_range_Descending(start, end) ==
    IF validate_date_range(start, end) # "" THEN Raised("ValueError")
    ELSE Returned([i \in 1..((ToOrdinal(end) - ToOrdinal(start)) + 1) |->
                    AddDays(start, (ToOrdinal(end) - ToOrdinal(start)) - (i - 1))])

\* The list of dates of the range (inclusive), or the ValueError of an invalid range.
get_date_range(start, end) ==
    IF validate_date_range(start, end) # "" THEN Raised("ValueError")
    ELSE Returned([i \in 1..((ToOrdinal(end) - ToOrdinal(start)) + 1) |-> AddDays(start, i - 1)])

(***************************************************************************)
(* word_processor.py: classification of a host error by its text           *)
(***************************************************************************)
\* Error texts a host call raises in the model, with str(e).lower() of each.
ErrRejected == "Call was rejected by callee"
ErrRejectedUpper == "Server call REJECTED, retry later"
ErrOther == "Some other error"

HostErrors == {ErrRejected, ErrRejectedUpper, ErrOther}

Lower(e) ==
    CASE e = ErrRejected -> "call was rejected by callee"
      [] e = ErrRejectedUpper -> "server call rejected, retry later"
      [] e = ErrOther -> "some other error"

\* "rejected" in error_str, for the lower-cased texts above
ContainsRejected(low) ==
    low \in {"call was rejected by callee", "server call rejected, retry later"}

\* safe_com_call's test of a retriable error
IsTransient(e) == ContainsRejected(Lower(e))

max_attempts_NoFloor(retries) == retries - 1

\* max_attempts = max(1, retries)
max_attempts(retries) == IF retries > 1 THEN retries ELSE 1

(***************************************************************************)
(* State                                                                   *)
(***************************************************************************)
VARIABLES
    arg_dt,          \* get_shift_template_name: the dt argument of the call
    arg_shift_type,  \* get_shift_template_name: the shift_type argument
    call_result,     \* <<>> before the call, <<result>> after it
    arg_folder,      \* find_template_file: what the folder argument is on disk
    arg_files,       \* find_template_file: os.listdir(folder), in listing order
    arg_template_name, \* find_template_file: the template_name argument
    arg_text,        \* replace_dates: the text of the story range before any rewrite
    doc_text,        \* replace_dates: the text of the story range now
    rewrites,        \* replace_dates: calls made on the document so far
    arg_stories,     \* replace_dates: doc.StoryRanges, each with its linked ranges
    arg_headers_only, \* the run's headers_footers_only parameter
    ui_inputs,       \* what the UI getters and the file system answer to start_processing
    ui_shown,        \* what the UI thread itself has shown: dialogs and status texts
    start_calls,     \* number of times the start command has been invoked
    batch_params,    \* batch_params of start_processing: the folders and the printer of the run
    pc,              \* the worker thread's position in _process_batch
    cancel_event,    \* ShiftAutomatorApp._cancel_event
    start_date,      \* batch_params["start_date"]
    end_date,        \* batch_params["end_date"]
    dates,           \* the list get_date_range returned
    date_idx,        \* index in dates of current_date (0 before the loop)
    job_index,       \* job_index of _process_batch
    failed_operations, \* the run's list of FailedOperation records
    word_app,        \* WordProcessor.word_app is not None
    wp_initialized,  \* WordProcessor._initialized
    com_registered,  \* CoInitialize calls not yet matched by CoUninitialize
    quit_calls,      \* number of word_app.Quit() requests made
    quit_raised,     \* the last Quit() that shutdown requested raised
    releases,        \* number of times shutdown released a held handle
    sessions_opened, \* number of initialize() calls that succeeded
    unwinding,       \* why the with block is being left: "", "return", "exception"
    cur_shift,       \* shift of the job in progress: "", "day", "night"
    com_attempt,     \* attempt of the safe_com_call in progress (0-based)
    com_invocations, \* times the host function of that safe_com_call was invoked
    last_error,      \* last_error of that safe_com_call ("" for None)
    pass_idx,        \* number of find/replace host calls of replace_dates completed
    host_log,        \* print_document in progress: the host operations it has finished
    active_printer,  \* the host's ActivePrinter setting
    old_printer,     \* old_printer of print_document (None before it is read)
    job_error,       \* the exception on its way to the except clause of print_document
    host_settings,   \* Visible, DisplayAlerts and AutomationSecurity of the host application
    print_calls,     \* the print_document calls made so far, with their arguments
    print_results,   \* what each of them returned (or that it raised)
    after_queue,     \* callbacks the worker scheduled with root.after(0, cb)
    ui_run,          \* how many of them the UI thread has run
    report_files,    \* failure reports written to the data directory, oldest first
    strategy_idx,    \* _try_dispatch: the strategy being tried (0 outside initialize)
    dispatch_attempt, \* _try_dispatch_with_retry: the attempt of that strategy
    last_attempt,    \* what the last attempt of initialize() in progress did
    wp_thread_id,    \* WordProcessor._thread_id
    prn_input,       \* _check_printer_status: what the printer driver does with the query
    prn_pc,          \* _check_printer_status: where the calling thread is
    prn_future,      \* the state of the future of _do_check
    prn_result,      \* <<>> until _check_printer_status returns <<is_ready, error>>
    mgr_calls,       \* calls made on a WordProcessor that is used on its own
    mgr_thread,      \* the thread that made the last of them
    mgr_op,          \* the method that was called last
    mgr_raised,      \* the exception that call propagated to its caller (None: it returned)
    btn_state,       \* state of the start button: "normal" or "disabled"
    btn_text,        \* text of the start button
    inputs_enabled,  \* the input widgets are enabled (set_inputs_enabled)
    closing,         \* ShiftAutomatorApp._closing
    destroyed,       \* root.destroy() has been called
    threads_started, \* worker threads started by start_processing so far
    ui_pc,           \* where the UI thread is: "idle" in the main loop, "joining" in _on_close
    cancel_calls     \* times the Escape command (_cancel_if_running) was invoked

\* The value None.
None == "<None>"

\* printer_name of the run, another printer, and the host's ActivePrinter values: no
\* active printer, the target, the other one.
TargetPrinter == "Printer A"
OtherPrinter == "Printer B"
HostPrinters == {"", TargetPrinter, OtherPrinter}

\* The settings of a host application as a dispatch strategy hands it over: a visible
\* window, every alert shown (wdAlertsAll), macros allowed (msoAutomationSecurityLow).
HostDefaults == [Visible |-> TRUE, DisplayAlerts |-> -1, AutomationSecurity |-> 1]

\* What initialize asks for: no window, no alerts, all macros disabled.
HostConfigured == [Visible |-> FALSE, DisplayAlerts |-> 0, AutomationSecurity |-> 4]

\* How many properties initialize sets on the application object.
NumSettings == 3

configure_MacrosLeft(settings, failed_at) ==
    [Visible |-> FALSE, DisplayAlerts |-> 0, AutomationSecurity |-> settings.AutomationSecurity]

\* self.word_app.Visible = False; .DisplayAlerts = 0; .AutomationSecurity = 4, in this
\* order, up to the setter that raises (failed_at, 0 when none does).
configure(settings, failed_at) ==
    [Visible |-> IF failed_at = 1 THEN settings.Visible ELSE FALSE,
     DisplayAlerts |-> IF failed_at \in {1, 2} THEN settings.DisplayAlerts ELSE 0,
     AutomationSecurity |-> IF failed_at = 0 THEN 4 ELSE settings.AutomationSecurity]

\* last_attempt when initialize() has made no attempt yet
NoAttempt == [strategy |-> None, attempt |-> 0, outcome |-> None, recovery |-> FALSE]

ui_vars == <<ui_run, report_files>>

init_vars == <<strategy_idx, dispatch_attempt, last_attempt, wp_thread_id>>

prn_vars == <<prn_input, prn_pc, prn_future, prn_result>>

mgr_vars == <<mgr_calls, mgr_thread, mgr_op, mgr_raised>>

app_vars == <<btn_state, btn_text, inputs_enabled, closing, destroyed, threads_started,
              ui_pc, cancel_calls>>

\* Arguments and result of a function that is called on its own, and the state of the
\* parts of the program that the worker thread of a batch run does not touch.
sched_vars == <<arg_dt, arg_shift_type, call_result, arg_folder, arg_files,
                arg_template_name, arg_text, doc_text, rewrites, arg_stories,
                arg_headers_only, ui_inputs, ui_shown, start_calls, batch_params, ui_vars, prn_vars,
                mgr_vars, app_vars>>

run_vars == <<pc, cancel_event, start_date, end_date, dates, date_idx, job_index,
              failed_operations, unwinding, cur_shift, print_calls, print_results,
              after_queue>>

wp_vars == <<word_app, wp_initialized, com_registered, quit_calls, quit_raised, releases,
             sessions_opened>>

job_vars == <<host_log, active_printer, old_printer, job_error>>

call_vars == <<com_attempt, com_invocations, last_error, pass_idx, job_vars, host_settings>>

vars == <<sched_vars, run_vars, wp_vars, call_vars, init_vars>>

(***************************************************************************)
(* SpecSched: get_shift_template_name applied to any date and shift kind.  *)
(***************************************************************************)
SchedDates ==
    {MkDate(y, m, d) : y \in SchedYears, m \in 1..MaxMonth, d \in 1..31}
        \cap {dt \in [year : SchedYears, month : 1..MaxMonth, day : 1..31] :
                dt.day <= DaysInMonth(dt.year, dt.month)}

ShiftTypes == {"day", "night", "Day", "evening", ""}

\* No batch run: the application is idle.
RunIdle ==
    /\ pc = "done"
    /\ cancel_event = FALSE
    /\ start_date = MkDate(2026, 1, 14)
    /\ end_date = MkDate(2026, 1, 14)
    /\ dates = <<>>
    /\ date_idx = 0
    /\ job_index = 0
    /\ failed_operations = <<>>
    /\ word_app = FALSE
    /\ wp_initialized = FALSE
    /\ com_registered = 0
    /\ quit_calls = 0
    /\ quit_raised = FALSE
    /\ releases = 0
    /\ sessions_opened = 0
    /\ unwinding = ""
    /\ cur_shift = ""
    /\ com_attempt = 0
    /\ com_invocations = 0
    /\ last_error = ""
    /\ pass_idx = 0
    /\ host_log = <<>>
    /\ old_printer = None
    /\ job_error = ""
    /\ host_settings = HostDefaults
    /\ active_printer = OtherPrinter
    /\ print_calls = <<>>
    /\ print_results = <<>>
    /\ after_queue = <<>>
    /\ strategy_idx = 0
    /\ last_attempt = NoAttempt
    /\ dispatch_attempt = 0
    /\ wp_thread_id = None

\* No call of find_template_file on its own.
ResolveIdle ==
    /\ arg_folder = "ok"
    /\ arg_files = <<>>
    /\ arg_template_name = ""

\* No call of replace_dates on its own.
RewriteIdle ==
    /\ arg_text = <<>>
    /\ doc_text = <<>>
    /\ rewrites = 0

\* No document whose story ranges are followed.
StoriesIdle ==
    /\ arg_stories = <<>>
    /\ arg_headers_only = FALSE

\* The value None of a date getter.
NoDate == [year |-> 0, month |-> 0, day |-> 0]

\* The UI thread has run no callback and no report was written.
UiIdle ==
    /\ ui_run = 0
    /\ report_files = <<>>

\* No printer status query on its own.
PrinterIdle ==
    /\ prn_input = [offline |-> FALSE, error |-> FALSE, driver |-> "returns"]
    /\ prn_pc = "idle"
    /\ prn_future = "none"
    /\ prn_result = <<>>

\* No WordProcessor used on its own.
ManagerIdle ==
    /\ mgr_calls = 0
    /\ mgr_thread = None
    /\ mgr_op = None
    /\ mgr_raised = None

\* The window as __init__ leaves it: inputs enabled, the button reading START EXECUTION,
\* no worker thread started, the UI thread in the main loop.
AppIdle ==
    /\ btn_state = "normal"
    /\ btn_text = "START EXECUTION"
    /\ inputs_enabled = TRUE
    /\ closing = FALSE
    /\ destroyed = FALSE
    /\ threads_started = 0
    /\ ui_pc = "idle"
    /\ cancel_calls = 0

\* The window as start_processing leaves it when it starts the worker thread.
AppRunning ==
    /\ btn_state = "normal"
    /\ btn_text = "STOP EXECUTION"
    /\ inputs_enabled = FALSE
    /\ closing = FALSE
    /\ destroyed = FALSE
    /\ threads_started = 1
    /\ ui_pc = "idle"
    /\ cancel_calls = 0

\* batch_params = {"day_folder": self.ui.get_day_folder(), ...}: the folders and the
\* printer as the UI holds them now (the dates go to start_date and end_date).
collect_params(ui) ==
    [day_folder |-> ui.day_folder, night_folder |-> ui.night_folder,
     printer_name |-> ui.printer_name]

\* No run has been started: nothing has been collected from the UI.
NoParams == [day_folder |-> "", night_folder |-> "", printer_name |-> ""]

\* The parameters of a run that is in progress.
RunParams == [day_folder |-> "valid", night_folder |-> "valid", printer_name |-> TargetPrinter]

\* The start command has not been used.
StartIdle ==
    /\ ui_inputs = [day_folder |-> "", night_folder |-> "", printer_name |-> "",
                    available_printers |-> <<>>, start_date |-> NoDate,
                    end_date |-> NoDate, word_status |-> TRUE, day_lookup |-> "found",
                    night_lookup |-> "found", confirm |-> FALSE]
    /\ ui_shown = <<>>
    /\ start_calls = 0
    /\ batch_params = RunParams

SchedIdle ==
    /\ arg_dt = MkDate(2026, 1, 1)
    /\ arg_shift_type = "day"
    /\ call_result = <<>>
    /\ ResolveIdle
    /\ RewriteIdle
    /\ StoriesIdle
    /\ StartIdle
    /\ UiIdle
    /\ PrinterIdle
    /\ ManagerIdle

InitSched ==
    /\ RunIdle
    /\ arg_dt \in SchedDates
    /\ arg_shift_type \in ShiftTypes
    /\ call_result = <<>>
    /\ ResolveIdle
    /\ RewriteIdle
    /\ StoriesIdle
    /\ StartIdle
    /\ UiIdle
    /\ PrinterIdle
    /\ ManagerIdle
    /\ AppIdle

CallGetShiftTemplateName ==
    /\ call_result = <<>>
    /\ call_result' = <<get_shift_template_name(arg_dt, arg_shift_type)>>
    /\ UNCHANGED <<arg_dt, arg_shift_type, arg_folder, arg_files, arg_template_name,
                   arg_text, doc_text, rewrites, arg_stories, arg_headers_only,
                   ui_inputs, ui_shown, start_calls, batch_params, run_vars, wp_vars, call_vars, init_vars,
                   ui_vars, prn_vars, mgr_vars, app_vars>>

NextSched == CallGetShiftTemplateName

SpecSched == InitSched /\ [][NextSched]_vars

(***************************************************************************)
(* SpecThursday: is_third_thursday of scheduler.py next to the calendar    *)
(* version of it that src/main.py keeps, applied to any date.              *)
(***************************************************************************)
\* Years whose months start on a Thursday (third Thursday the 15th) and on a Friday
\* (third Thursday the 21st).
ThursdayYears == {2026, 2027}

ThursdayDates ==
    {dt \in [year : ThursdayYears, month : 1..MaxMonth, day : 1..31] :
        dt.day <= DaysInMonth(dt.year, dt.month)}

\* calendar.monthcalendar(year, month): the weeks of the month, Monday first, with 0
\* for the days of a week that belong to another month.
monthcalendar(y, m) ==
    LET first == Weekday(MkDate(y, m, 1))
        weeks == ((first + DaysInMonth(y, m)) + 6) \div 7
    IN  [w \in 1..weeks |->
            [c \in 1..7 |->
                LET d == ((7 * (w - 1)) + c) - first
                IN  IF 1 <= d /\ d <= DaysInMonth(y, m) THEN d ELSE 0]]

\* thursdays = [week[3] for week in month_calendar if week[3] != 0]
thursdays(month_calendar) ==
    LET Column == [w \in 1..Len(month_calendar) |-> month_calendar[w][4]]
    IN  SelectSeq(Column, LAMBDA d : d # 0)

\* is_third_thursday of src/main.py: the third entry of the month's Thursdays
calendar_is_third_thursday(dt) ==
    IF Weekday(dt) # 3 THEN FALSE
    ELSE IF Len(thursdays(monthcalendar(dt.year, dt.month))) >= 3
         THEN dt.day = thursdays(monthcalendar(dt.year, dt.month))[3]
         ELSE FALSE

InitThursday ==
    /\ RunIdle
    /\ arg_dt \in ThursdayDates
    /\ arg_shift_type = "day"
    /\ call_result = <<>>
    /\ ResolveIdle
    /\ RewriteIdle
    /\ StoriesIdle
    /\ StartIdle
    /\ UiIdle
    /\ PrinterIdle
    /\ ManagerIdle
    /\ AppIdle

CallIsThirdThursday ==
    /\ call_result = <<>>
    /\ call_result' = <<[scheduler |-> is_third_thursday(arg_dt),
                         calendar |-> calendar_is_third_thursday(arg_dt)]>>
    /\ UNCHANGED <<arg_dt, arg_shift_type, arg_folder, arg_files, arg_template_name,
                   arg_text, doc_text, rewrites, arg_stories, arg_headers_only,
                   ui_inputs, ui_shown, start_calls, batch_params, run_vars, wp_vars,
                   call_vars, init_vars, ui_vars, prn_vars, mgr_vars, app_vars>>

NextThursday == CallIsThirdThursday

SpecThursday == InitThursday /\ [][NextThursday]_vars

(***************************************************************************)
(* SpecResolve: find_template_file applied to any folder listing.          *)
(***************************************************************************)
\* Most files a folder listing holds.
MaxFiles == 3

\* File names a folder may hold, and the logical names that are resolved.
FileNames ==
    {"Thursday.docx", "thursday.docx", "Thursday.DOCX", "THIRD Thursday.docx",
     "Thursday Night.docx", "Thursday.txt"}

TemplateNames == {"Thursday", "THIRD Thursday", "Thursday Night", "Friday"}

\* os.path.getsize of a file: 0, more than 0, or OSError.
FileSizes == {"empty", "nonempty", "oserror"}

\* validate_folder_path fails, os.listdir raises OSError, or the folder is listed.
FolderStates == {"invalid", "unlistable", "ok"}

DOCX_EXTENSION == ".docx"

\* str.lower() of the file names and expected file names above.
LowerText(t) ==
    CASE t \in {"Thursday.docx", "thursday.docx", "Thursday.DOCX"} -> "thursday.docx"
      [] t = "THIRD Thursday.docx" -> "third thursday.docx"
      [] t = "Thursday Night.docx" -> "thursday night.docx"
      [] t = "Thursday.txt" -> "thursday.txt"
      [] t = "Friday.docx" -> "friday.docx"

\* low.endswith(DOCX_EXTENSION), for the lower-cased texts above
EndsWithDocx(low) ==
    low \in {"thursday.docx", "third thursday.docx", "thursday night.docx", "friday.docx"}

IsExactMatch_Suffix(f, expected_filename) ==
    \/ LowerText(f) = LowerText(expected_filename)
    \/ <<LowerText(f), LowerText(expected_filename)>> \in
            {<<"third thursday.docx", "thursday.docx">>}

\* f.lower() == expected_filename.lower()
IsExactMatch(f, expected_filename) == LowerText(f) = LowerText(expected_filename)

\* The loop over the listing: the first .docx file whose name matches decides; an
\* empty file or one whose size cannot be read gives None.
RECURSIVE SearchListing(_, _)
SearchListing(files, expected_filename) ==
    IF files = <<>> THEN None
    ELSE LET f == Head(files) IN
         IF ~EndsWithDocx(LowerText(f.name))
         THEN SearchListing(Tail(files), expected_filename)
         ELSE IF IsExactMatch(f.name, expected_filename)
         THEN (IF f.size = "nonempty" THEN f.name ELSE None)
         ELSE SearchListing(Tail(files), expected_filename)

\* The file of the folder that template_name resolves to (its name stands for the
\* joined path), or None.
find_template_file(folder, files, template_name) ==
    IF folder # "ok" THEN None
    ELSE SearchListing(files, template_name \o DOCX_EXTENSION)

\* Listings of at most MaxFiles files with distinct names.
Listings ==
    {l \in UNION {[1..n -> [name : FileNames, size : FileSizes]] : n \in 0..MaxFiles} :
        \A i, j \in 1..Len(l) : l[i].name = l[j].name => i = j}

InitResolve ==
    /\ RunIdle
    /\ arg_dt = MkDate(2026, 1, 1)
    /\ arg_shift_type = "day"
    /\ call_result = <<>>
    /\ arg_folder \in FolderStates
    /\ arg_files \in Listings
    /\ arg_template_name \in TemplateNames
    /\ RewriteIdle
    /\ StoriesIdle
    /\ StartIdle
    /\ UiIdle
    /\ PrinterIdle
    /\ ManagerIdle
    /\ AppIdle

CallFindTemplateFile ==
    /\ call_result = <<>>
    /\ call_result' = <<find_template_file(arg_folder, arg_files, arg_template_name)>>
    /\ UNCHANGED <<arg_dt, arg_shift_type, arg_folder, arg_files, arg_template_name,
                   arg_text, doc_text, rewrites, arg_stories, arg_headers_only,
                   ui_inputs, ui_shown, start_calls, batch_params, run_vars, wp_vars, call_vars, init_vars,
                   ui_vars, prn_vars, mgr_vars, app_vars>>

NextResolve == CallFindTemplateFile

SpecResolve == InitResolve /\ [][NextResolve]_vars

(***************************************************************************)
(* SpecRewrite: replace_dates applied again and again to one story range.  *)
(* A text is a sequence of tokens: words and numbers separated by single   *)
(* spaces, a comma attached to the token before it.                        *)
(***************************************************************************)
\* Longest text of a story range, in tokens, before the first rewrite.
MaxTokens == 6

\* Most calls of replace_dates on one document.
MaxRewrites == 2

DATE_PLACEHOLDER == "{{DATE}}"

\* What a text is made of.
Tokens == {"Thursday", "Sunday", ",", "January", "15", "04", "2026", DATE_PLACEHOLDER}

\* The alternatives of day_names and month_names, and what [0-9]{1,2} and [0-9]{4}
\* match, among the tokens.
DayNameTokens == {"Thursday", "Sunday"}
MonthNameTokens == {"January"}
Digits12Tokens == {"15", "04"}
Digits4Tokens == {"2026"}

\* strftime("%A"), strftime("%B"), str(int(strftime("%d"))) and strftime("%Y")
new_day(d) == EN_DAY_NAMES[Weekday(d) + 1]
new_month(d) == IF d.month = 1 THEN "January" ELSE "February"
new_day_num(d) ==
    <<"1", "2", "3", "4", "5", "6", "7", "8", "9", "10", "11", "12", "13", "14", "15",
      "16", "17", "18", "19", "20", "21", "22", "23", "24", "25", "26", "27", "28",
      "29", "30", "31">>[d.day]
new_year(d) == IF d.year = 2026 THEN "2026" ELSE "2024"

\* text[i..] starts with the tokens that fit, one by one, the sets of kinds
FitsAt(text, i, kinds) ==
    /\ i + Len(kinds) - 1 <= Len(text)
    /\ \A k \in 1..Len(kinds) : text[i + k - 1] \in kinds[k]

Style2Pattern_NoDayName ==
    <<MonthNameTokens, Digits12Tokens, {","}, Digits4Tokens>>

\* Style 1: "Sunday, January 04, 2026" (with comma after day)
Style1Pattern ==
    <<DayNameTokens, {","}, MonthNameTokens, Digits12Tokens, {","}, Digits4Tokens>>

\* Style 2: "Saturday January 03, 2026" (no comma after day)
Style2Pattern ==
    <<DayNameTokens, MonthNameTokens, Digits12Tokens, {","}, Digits4Tokens>>

\* The find text of a pass, as kinds of tokens.
FindPattern(pass) ==
    CASE pass = "placeholder" -> <<{DATE_PLACEHOLDER}>>
      [] pass = "style1" -> Style1Pattern
      [] pass = "style2" -> Style2Pattern

\* The replacement text of a pass for the date d.
ReplaceWith(pass, d) ==
    IF pass = "style2"
    THEN <<new_day(d), new_month(d), new_day_num(d), ",", new_year(d)>>
    ELSE <<new_day(d), ",", new_month(d), new_day_num(d), ",", new_year(d)>>

\* Find.Execute with Replace = wdReplaceAll from position i on: every match, left to
\* right and without overlap, is replaced.
RECURSIVE ReplaceAllFrom(_, _, _, _)
ReplaceAllFrom(text, i, pass, d) ==
    IF i > Len(text) THEN <<>>
    ELSE IF FitsAt(text, i, FindPattern(pass))
    THEN ReplaceWith(pass, d) \o ReplaceAllFrom(text, i + Len(FindPattern(pass)), pass, d)
    ELSE <<text[i]>> \o ReplaceAllFrom(text, i + 1, pass, d)

\* _run_find_replace on one range
run_find_replace(text, pass, d) == ReplaceAllFrom(text, 1, pass, d)

\* replace_dates on the text of one range: the placeholder pass, then the two
\* wildcard passes in order.
replace_dates(text, d) ==
    run_find_replace(
        run_find_replace(run_find_replace(text, "placeholder", d), "style1", d),
        "style2", d)

\* Find.Execute returns True: the find text occurs somewhere in the range
FindSucceeds(text, pass) ==
    \E i \in 1..Len(text) : FitsAt(text, i, FindPattern(pass))

\* The find/replace passes that replace_dates executes on a range, in order, each with
\* what Find.Execute returned: the result is logged and decides nothing.
replace_dates_passes(text, d) ==
    LET t1 == run_find_replace(text, "placeholder", d)
        t2 == run_find_replace(t1, "style1", d)
    IN  <<[pass |-> "placeholder", success |-> FindSucceeds(text, "placeholder")],
          [pass |-> "style1", success |-> FindSucceeds(t1, "style1")],
          [pass |-> "style2", success |-> FindSucceeds(t2, "style2")]>>

Texts == UNION {[1..n -> Tokens] : n \in 0..MaxTokens}

RewriteDates == {MkDate(2026, 1, 15)}

InitRewrite ==
    /\ RunIdle
    /\ arg_dt \in RewriteDates
    /\ arg_shift_type = "day"
    /\ call_result = <<>>
    /\ ResolveIdle
    /\ StoriesIdle
    /\ StartIdle
    /\ UiIdle
    /\ PrinterIdle
    /\ ManagerIdle
    /\ AppIdle
    /\ arg_text \in Texts
    /\ doc_text = arg_text
    /\ rewrites = 0

CallReplaceDates ==
    /\ rewrites < MaxRewrites
    /\ doc_text' = replace_dates(doc_text, arg_dt)
    /\ call_result' = replace_dates_passes(doc_text, arg_dt)
    /\ rewrites' = rewrites + 1
    /\ UNCHANGED <<arg_dt, arg_shift_type, arg_folder, arg_files,
                   arg_template_name, arg_text, arg_stories, arg_headers_only,
                   ui_inputs, ui_shown, start_calls, batch_params, run_vars, wp_vars, call_vars, init_vars,
                   ui_vars, prn_vars, mgr_vars, app_vars>>

NextRewrite == CallReplaceDates

SpecRewrite == InitRewrite /\ [][NextRewrite]_vars

(***************************************************************************)
(* SpecStories: the ranges of a document that the find/replace passes of   *)
(* replace_dates are run on.                                               *)
(***************************************************************************)
\* Most story types a document has.
MaxStoryKinds == 2

\* Most ranges linked to the first range of a story through NextStoryRange.
MaxLinked == 1

\* Story types of a document: the body, and the types outside the body.
BodyStory == "main_text"
StoryKinds == {BodyStory, "primary_header", "primary_footer", "footnotes"}

\* doc.StoryRanges: one first range per story type the document has, each followed by
\* its linked ranges.
StoryLists ==
    {l \in UNION {[1..n -> [kind : StoryKinds, linked : 0..MaxLinked]] : n \in 1..MaxStoryKinds} :
        \A i, j \in 1..Len(l) : l[i].kind = l[j].kind => i = j}

\* The ranges of one story in the order the while loop visits them.
StoryTargets(story) == [k \in 1..(story.linked + 1) |-> [kind |-> story.kind, link |-> k - 1]]

\* _execute_replace: _run_find_replace on every story range and on every range linked
\* to it; the run's headers_footers_only value does not reach it.
execute_replace(stories, headers_only) ==
    IF stories = <<>> THEN <<>>
    ELSE LET RECURSIVE Visit(_)
             Visit(rest) ==
                 IF rest = <<>> THEN <<>>
                 ELSE StoryTargets(Head(rest)) \o Visit(Tail(rest))
         IN  Visit(stories)

\* The ranges Find.Execute is run on by the three passes of replace_dates, in order.
replace_dates_targets(stories, headers_only) ==
    execute_replace(stories, headers_only) \o execute_replace(stories, headers_only)
        \o execute_replace(stories, headers_only)

InitStories ==
    /\ RunIdle
    /\ arg_dt = MkDate(2026, 1, 1)
    /\ arg_shift_type = "day"
    /\ call_result = <<>>
    /\ ResolveIdle
    /\ RewriteIdle
    /\ arg_stories \in StoryLists
    /\ arg_headers_only \in BOOLEAN
    /\ StartIdle
    /\ UiIdle
    /\ PrinterIdle
    /\ ManagerIdle
    /\ AppIdle

CallReplaceDatesOnStories ==
    /\ call_result = <<>>
    /\ call_result' = <<replace_dates_targets(arg_stories, arg_headers_only)>>
    /\ UNCHANGED <<arg_dt, arg_shift_type, arg_folder, arg_files, arg_template_name,
                   arg_text, doc_text, rewrites, arg_stories, arg_headers_only,
                   ui_inputs, ui_shown, start_calls, batch_params, run_vars, wp_vars, call_vars, init_vars,
                   ui_vars, prn_vars, mgr_vars, app_vars>>

NextStories == CallReplaceDatesOnStories

SpecStories == InitStories /\ [][NextStories]_vars

(***************************************************************************)
(* Spec: one batch run. start_processing has validated the inputs, cleared *)
(* the cancel flag, snapshotted the parameters and started the worker      *)
(* thread; the worker runs _process_batch while the UI thread may request  *)
(* cancellation at any time.                                               *)
(***************************************************************************)
\* Longest date range of a run, in days.
MaxDays == 2

\* Longest date range of a run whose jobs are followed host call by host call.
JobDays == 1

\* Story ranges of a document (each find/replace pass makes one host call per range).
NumStories == 1

\* replace_dates makes three _execute_replace passes: the placeholder and two patterns.
ReplacePasses == 3

StartDates == {MkDate(2026, 1, 14), MkDate(2026, 1, 31)}

ErrNotInitialized == "Word processor not initialized"
ErrPrinterOffline == "Printer is offline."
ErrTemplateNotFound(template) == "Template not found: " \o template
ErrCreateFailed == "Failed to create document from template"

JobPcs == {"print", "printing", "add", "unprotect", "replace", "set_printer", "printout",
           "restore", "close", "cleanup"}
CallPcs == {"add", "unprotect", "replace", "printout", "close"}
BoundaryPcs == {"chk_date", "chk_day", "chk_night"}

\* _compute_batch_size
compute_batch_size(start, end) ==
    LET total_days == (ToOrdinal(end) - ToOrdinal(start)) + 1
    IN  [total_days |-> total_days, total_jobs |-> total_days * 2]

total_jobs == compute_batch_size(start_date, end_date).total_jobs

current_date == dates[date_idx]

cur_template == get_shift_template_name(current_date, cur_shift).value

safe_after_IgnoresClosing(queue, callback) == Append(queue, callback)

\* self._safe_after(callback): nothing once the window is closing; else the callback is
\* handed to root.after(0, callback), whose TclError on a destroyed window is swallowed
safe_after(queue, callback) ==
    IF closing THEN queue
    ELSE IF destroyed THEN queue
    ELSE Append(queue, callback)

StatusUpdate(msg, progress) == [kind |-> "update_status", msg |-> msg, progress |-> progress]

\* The state start_processing leaves when it starts the worker: the cancel flag cleared
\* and a validated date range of at most maxDays days snapshotted.
InitRun(maxDays) ==
    /\ SchedIdle
    /\ AppRunning
    /\ pc = "begin"
    /\ cancel_event = FALSE
    /\ start_date \in StartDates
    /\ \E n \in 1..maxDays : end_date = AddDays(start_date, n - 1)
    /\ dates = <<>>
    /\ date_idx = 0
    /\ job_index = 0
    /\ failed_operations = <<>>
    /\ word_app = FALSE
    /\ wp_initialized = FALSE
    /\ com_registered = 0
    /\ quit_calls = 0
    /\ quit_raised = FALSE
    /\ releases = 0
    /\ sessions_opened = 0
    /\ unwinding = ""
    /\ cur_shift = ""
    /\ com_attempt = 0
    /\ com_invocations = 0
    /\ last_error = ""
    /\ pass_idx = 0
    /\ host_log = <<>>
    /\ old_printer = None
    /\ job_error = ""
    /\ host_settings = HostDefaults
    /\ print_calls = <<>>
    /\ print_results = <<>>
    /\ after_queue = <<>>
    /\ strategy_idx = 0
    /\ last_attempt = NoAttempt
    /\ dispatch_attempt = 0
    /\ wp_thread_id = None

Init == InitRun(MaxDays) /\ active_printer = OtherPrinter

\* start_processing pressed while the worker is alive, or Escape (_cancel_if_running)
CancelRequest ==
    /\ pc # "done"
    /\ ~cancel_event
    /\ cancel_event' = TRUE
    /\ UNCHANGED <<sched_vars, init_vars, wp_vars, call_vars, pc, start_date, end_date, dates,
                   date_idx, job_index, failed_operations, unwinding, cur_shift,
                   print_calls, print_results, after_queue>>

\* _process_batch up to the with statement: totals, the empty failure list, and the
\* "Initializing Word..." status.
ProcessBatchBegin ==
    /\ pc = "begin"
    /\ IF start_date = NoDate \/ end_date = NoDate
       THEN \* "Batch params missing start_date or end_date": return before the try
            /\ pc' = "thread_exit"
            /\ UNCHANGED <<failed_operations, after_queue>>
       ELSE /\ failed_operations' = <<>>
            /\ after_queue' = safe_after(after_queue, StatusUpdate("Initializing Word...", 0))
            /\ pc' = "enter"
    /\ UNCHANGED <<sched_vars, init_vars, wp_vars, call_vars, cancel_event, start_date, end_date,
                   dates, date_idx, job_index, unwinding, cur_shift, print_calls,
                   print_results>>

\* Most attempts of one connection strategy (COM_INIT_MAX_RETRIES_PER_METHOD).
COM_INIT_MAX_RETRIES_PER_METHOD == 2

\* _try_dispatch: the strategies in order of preference.
dispatch_strategies ==
    <<"GetObject", "Dynamic Dispatch", "DispatchEx", "Standard Dispatch",
      "Subprocess Launch">>

\* The thread of _process_batch and the thread of the Tk main loop.
WorkerThread == "worker"
UiThread == "ui"

\* What one attempt of a strategy can do: hand back an application object that
\* _verify_word_connection accepts or rejects, or raise an error that _is_cache_error
\* recognises or does not.
DispatchOutcomes == {"verified", "unverified", "cache_error", "other_error"}

try_dispatch_with_retry_AcceptsUnverified(outcome, attempt) ==
    IF outcome \in {"verified", "unverified"} THEN "return_app"
    ELSE IF outcome = "cache_error" /\ attempt < COM_INIT_MAX_RETRIES_PER_METHOD
    THEN "retry"
    ELSE "return_none"

\* One pass of the loop of _try_dispatch_with_retry: the verified application is
\* returned, the same strategy is attempted again, or the strategy returns None.
try_dispatch_with_retry(outcome, attempt) ==
    IF outcome = "verified" THEN "return_app"
    ELSE IF outcome \in {"unverified", "cache_error"} /\ attempt < COM_INIT_MAX_RETRIES_PER_METHOD
    THEN "retry"
    ELSE "return_none"

\* _try_dispatch_with_retry: _perform_cache_recovery runs after an attempt that raised a
\* cache error, unless it was the last attempt of the strategy.
runs_cache_recovery(outcome, attempt) ==
    outcome = "cache_error" /\ attempt < COM_INIT_MAX_RETRIES_PER_METHOD

\* One attempt as the log lines of _try_dispatch_with_retry tell it.
AttemptRecord(outcome) ==
    [strategy |-> dispatch_strategies[strategy_idx], attempt |-> dispatch_attempt,
     outcome |-> outcome, recovery |-> runs_cache_recovery(outcome, dispatch_attempt)]

initialize_failed_KeepsRegistration ==
    /\ wp_initialized' = FALSE
    /\ com_registered' = com_registered
    /\ strategy_idx' = 0
    /\ dispatch_attempt' = 0
    /\ unwinding' = "exception"
    /\ pc' = "except"
    /\ UNCHANGED <<quit_calls, quit_raised, releases, sessions_opened, wp_thread_id, job_index>>

\* The except clause of initialize once COM was registered: CoUninitialize, then
\* RuntimeError("Could not initialize Word: ...") leaves __enter__, so that neither the
\* with body nor __exit__ runs.
initialize_failed ==
    /\ wp_initialized' = FALSE
    /\ com_registered' = com_registered - 1
    /\ strategy_idx' = 0
    /\ dispatch_attempt' = 0
    /\ unwinding' = "exception"
    /\ pc' = "except"
    /\ UNCHANGED <<quit_calls, quit_raised, releases, sessions_opened, wp_thread_id, job_index>>

InitFrame ==
    UNCHANGED <<sched_vars, com_attempt, com_invocations, last_error, pass_idx, job_vars,
                cancel_event, start_date, end_date, dates,
                date_idx, failed_operations, cur_shift, print_calls, print_results,
                after_queue>>

\* with wp as word_proc: __enter__ calls initialize(). An initialised manager returns at
\* once; without pywin32, or when COM cannot be registered, RuntimeError is raised with
\* nothing to release; else COM is registered on the calling thread, the thread is
\* recorded, and _try_dispatch starts with the pre-flight cleanup.
EnterSession ==
    /\ pc = "enter"
    /\ IF wp_initialized
       THEN /\ pc' = "range"
            /\ job_index' = 0
            /\ UNCHANGED <<wp_vars, init_vars, unwinding>>
       ELSE \E outcome \in {"no_pywin32", "coinitialize_failed", "registered"} :
            IF outcome = "registered"
            THEN /\ com_registered' = com_registered + 1
                 /\ wp_thread_id' = WorkerThread
                 /\ strategy_idx' = 1
                 /\ dispatch_attempt' = 1
                 /\ last_attempt' = NoAttempt
                 /\ pc' = "dispatch"
                 /\ UNCHANGED <<word_app, wp_initialized, quit_calls, quit_raised, releases,
                                sessions_opened, unwinding, job_index>>
            ELSE /\ unwinding' = "exception"
                 /\ pc' = "except"
                 /\ UNCHANGED <<wp_vars, init_vars, job_index>>
    /\ UNCHANGED host_settings
    /\ InitFrame

\* One attempt of the current strategy in _try_dispatch_with_retry, and what
\* _try_dispatch and initialize do with its result.
TryDispatchAttempt ==
    /\ pc = "dispatch"
    /\ \E outcome \in DispatchOutcomes :
        /\ last_attempt' = AttemptRecord(outcome)
        /\ host_settings' = (IF try_dispatch_with_retry(outcome, dispatch_attempt) = "return_app"
                             THEN HostDefaults ELSE host_settings)
        /\ CASE try_dispatch_with_retry(outcome, dispatch_attempt) = "return_app" ->
                   /\ word_app' = TRUE
                   /\ strategy_idx' = 0
                   /\ dispatch_attempt' = 0
                   /\ pc' = "configure"
                   /\ UNCHANGED <<wp_initialized, com_registered, quit_calls, quit_raised, releases,
                                  sessions_opened, wp_thread_id, unwinding, job_index>>
             [] try_dispatch_with_retry(outcome, dispatch_attempt) = "retry" ->
                   /\ dispatch_attempt' = dispatch_attempt + 1
                   /\ UNCHANGED <<wp_vars, strategy_idx, wp_thread_id, pc, unwinding,
                                  job_index>>
             [] try_dispatch_with_retry(outcome, dispatch_attempt) = "return_none" ->
                   IF strategy_idx < Len(dispatch_strategies)
                   THEN /\ strategy_idx' = strategy_idx + 1
                        /\ dispatch_attempt' = 1
                        /\ UNCHANGED <<wp_vars, wp_thread_id, pc, unwinding, job_index>>
                   ELSE /\ word_app' = FALSE
                        /\ initialize_failed
    /\ InitFrame

\* initialize with the application object: Visible, DisplayAlerts and AutomationSecurity
\* are set and the manager is initialised; a setter that raises leaves the object in
\* word_app and takes the except clause.
ConfigureWord ==
    /\ pc = "configure"
    /\ \E failed_at \in 0..NumSettings :
        /\ host_settings' = configure(host_settings, failed_at)
        /\ IF failed_at = 0
           THEN /\ wp_initialized' = TRUE
                /\ sessions_opened' = sessions_opened + 1
                /\ job_index' = 0
                /\ last_attempt' = NoAttempt
                /\ pc' = "range"
                /\ UNCHANGED <<word_app, com_registered, quit_calls, quit_raised, releases,
                               strategy_idx, dispatch_attempt, wp_thread_id, unwinding>>
           ELSE /\ word_app' = word_app
                /\ last_attempt' = NoAttempt
                /\ initialize_failed
    /\ InitFrame

\* The pc and date index after a date's night job: the next date, or the end of the loop.
NextDatePc(idx, n) == IF idx < n THEN "chk_date" ELSE "complete"
NextDateIdx(idx, n) == IF idx < n THEN idx + 1 ELSE idx

\* for current_date in get_date_range(start_date, end_date): the range is built once
EvalDateRange ==
    /\ pc = "range"
    /\ LET r == get_date_range(start_date, end_date) IN
        IF r.raised # ""
        THEN /\ unwinding' = "exception"
             /\ pc' = "exit_with"
             /\ UNCHANGED <<dates, date_idx>>
        ELSE /\ dates' = r.value
             /\ date_idx' = NextDateIdx(0, Len(r.value))
             /\ pc' = NextDatePc(0, Len(r.value))
             /\ UNCHANGED unwinding
    /\ UNCHANGED <<sched_vars, init_vars, wp_vars, call_vars, cancel_event, start_date, end_date,
                   job_index, failed_operations, cur_shift, print_calls, print_results,
                   after_queue>>

\* self._cancel_ui_update(); return
CancelledReturn ==
    /\ after_queue' = safe_after(after_queue, StatusUpdate("Cancelled", 0))
    /\ unwinding' = "return"
    /\ pc' = "exit_with"

CheckCancel_Skipped(next, shift) ==
    /\ pc' = next
    /\ cur_shift' = shift
    /\ UNCHANGED <<after_queue, unwinding>>

\* if self._cancel_event.is_set(): ... return, at a job boundary
CheckCancel(next, shift) ==
    IF cancel_event
    THEN CancelledReturn /\ UNCHANGED cur_shift
    ELSE /\ pc' = next
         /\ cur_shift' = shift
         /\ UNCHANGED <<after_queue, unwinding>>

\* line 487: the check at the top of the loop body
CheckCancelDate ==
    /\ pc = "chk_date"
    /\ CheckCancel("chk_day", "")
    /\ UNCHANGED <<sched_vars, init_vars, wp_vars, call_vars, cancel_event, start_date, end_date,
                   dates, date_idx, job_index, failed_operations, print_calls,
                   print_results>>

\* line 494: the check before the day job
CheckCancelDay ==
    /\ pc = "chk_day"
    /\ CheckCancel("print", "day")
    /\ UNCHANGED <<sched_vars, init_vars, wp_vars, call_vars, cancel_event, start_date, end_date,
                   dates, date_idx, job_index, failed_operations, print_calls,
                   print_results>>

\* line 513: the check before the night job
CheckCancelNight ==
    /\ pc = "chk_night"
    /\ CheckCancel("print", "night")
    /\ UNCHANGED <<sched_vars, init_vars, wp_vars, call_vars, cancel_event, start_date, end_date,
                   dates, date_idx, job_index, failed_operations, print_calls,
                   print_results>>

(***************************************************************************)
(* A job: _print_shift and WordProcessor.print_document                    *)
(***************************************************************************)
FailedOperation(success, error) ==
    IF success THEN <<>>
    ELSE <<[date |-> current_date, shift |-> cur_shift,
            template |-> cur_template, error |-> error]>>

RecordFailure_Dropped(success, error) == failed_operations

\* if not success: failed_operations.append({...})   (shift_label.lower() is cur_shift)
RecordFailure(success, error) == failed_operations \o FailedOperation(success, error)

\* print_document returned (success, error) to _print_shift, which records a failure
\* and returns; _process_batch adds one to job_index and goes on to the next boundary.
JobReturns(success, error) ==
    /\ print_results' = Append(print_results, [raised |-> FALSE, success |-> success, error |-> error])
    /\ failed_operations' = RecordFailure(success, error)
    /\ job_index' = job_index + 1
    /\ pass_idx' = 0
    /\ IF cur_shift = "day"
       THEN pc' = "chk_night" /\ UNCHANGED date_idx
       ELSE /\ pc' = NextDatePc(date_idx, Len(dates))
            /\ date_idx' = NextDateIdx(date_idx, Len(dates))
    /\ cur_shift' = ""
    /\ UNCHANGED <<unwinding, dates>>

PrintingStatus ==
    [kind |-> "update_status", msg |-> "Printing", shift |-> cur_shift, date |-> current_date,
     job |-> job_index + 1, total |-> total_jobs,
     progress |-> (job_index * 100) \div (IF total_jobs > 1 THEN total_jobs ELSE 1)]

\* print_document checks the session, the printer status and the template file before
\* it opens the document. "raise" is an exception that escapes print_document.
PrintDocumentEnter ==
    /\ pc = "printing"
    /\ com_attempt' = 0
    /\ com_invocations' = 0
    /\ last_error' = ""
    /\ host_log' = <<>>
    /\ old_printer' = None
    /\ job_error' = ""
    /\ UNCHANGED <<active_printer, host_settings>>
    /\ \E outcome \in {"raise", "printer_offline", "not_found", "open"} :
        IF outcome = "raise"
        THEN /\ print_results' = Append(print_results, [raised |-> TRUE, success |-> FALSE, error |-> "RuntimeError"])
             /\ unwinding' = "exception"
             /\ pc' = "exit_with"
             /\ UNCHANGED <<failed_operations, job_index, pass_idx, date_idx, cur_shift, dates>>
        ELSE IF ~wp_initialized \/ ~word_app
        THEN JobReturns(FALSE, ErrNotInitialized)
        ELSE IF outcome = "printer_offline"
        THEN JobReturns(FALSE, ErrPrinterOffline)
        ELSE IF outcome = "not_found"
        THEN JobReturns(FALSE, ErrTemplateNotFound(cur_template))
        ELSE /\ pc' = "add"
             /\ UNCHANGED <<print_results, failed_operations, job_index, pass_idx,
                            date_idx, cur_shift, unwinding, dates>>
    /\ UNCHANGED <<sched_vars, init_vars, wp_vars, cancel_event, start_date, end_date, print_calls,
                   after_queue>>

\* What a print_document call can hand back to _print_shift: (True, None), (False,
\* error text), or an exception that escapes it.
PrintDocumentResults ==
    {[raised |-> FALSE, success |-> TRUE, error |-> ""],
     [raised |-> TRUE, success |-> FALSE, error |-> "RuntimeError"]}
    \cup {[raised |-> FALSE, success |-> FALSE, error |-> e] :
            e \in {ErrTemplateNotFound(cur_template), ErrRejected, ErrOther}}

\* _print_shift up to the call: the progress status is scheduled and print_document is
\* called with the job's folder, template and date.
job_params_ReadsUi == collect_params(ui_inputs)

\* day_folder = params["day_folder"] ... : the worker works on the dictionary it was
\* started with.
job_params == batch_params

PrintShiftCall ==
    /\ pc = "print"
    /\ after_queue' = safe_after(after_queue, PrintingStatus)
    /\ print_calls' = Append(print_calls,
            [date |-> current_date, shift |-> cur_shift, template |-> cur_template,
             folder |-> (IF cur_shift = "day" THEN job_params.day_folder
                         ELSE job_params.night_folder),
             printer_name |-> job_params.printer_name])
    /\ pc' = "printing"
    /\ UNCHANGED <<sched_vars, init_vars, wp_vars, call_vars, cancel_event, start_date, end_date,
                   dates, date_idx, job_index, failed_operations, unwinding, cur_shift,
                   print_results>>

\* print_document runs to its result and _print_shift records a failure.
PrintDocumentReturn ==
    /\ pc = "printing"
    /\ \E r \in PrintDocumentResults :
        IF r.raised
        THEN /\ print_results' = Append(print_results, r)
             /\ unwinding' = "exception"
             /\ pc' = "exit_with"
             /\ UNCHANGED <<failed_operations, job_index, pass_idx, date_idx, cur_shift, dates>>
        ELSE IF ~wp_initialized \/ ~word_app
        THEN JobReturns(FALSE, ErrNotInitialized)
        ELSE JobReturns(r.success, r.error)
    /\ UNCHANGED <<sched_vars, init_vars, wp_vars, cancel_event, start_date, end_date, com_attempt,
                   com_invocations, last_error, job_vars, host_settings, print_calls,
                   after_queue>>

safe_com_call_RetryAll(outcome, attempt, retries) ==
    IF outcome = "ok" THEN "return"
    ELSE IF attempt < max_attempts(retries) - 1 THEN "retry"
    ELSE "raise"

\* One pass of safe_com_call's loop for a host function that returns ("ok") or raises
\* an error text: "return", "retry" (sleep, then the next attempt) or "raise".
safe_com_call(outcome, attempt, retries) ==
    IF outcome = "ok" THEN "return"
    ELSE IF IsTransient(outcome) /\ attempt < max_attempts(retries) - 1 THEN "retry"
    ELSE "raise"

\* The bookkeeping of one attempt of the host function.
Attempt(outcome) ==
    /\ com_invocations' = (IF com_attempt = 0 THEN 0 ELSE com_invocations) + 1
    /\ last_error' = (IF outcome = "ok" THEN "" ELSE outcome)
    /\ com_attempt' =
         (IF safe_com_call(outcome, com_attempt, COM_RETRIES) = "retry"
          THEN com_attempt + 1 ELSE 0)

\* The job continues with the next host call of print_document.
Continue(next) ==
    /\ pc' = next
    /\ UNCHANGED <<print_results, failed_operations, job_index, date_idx, cur_shift,
                   unwinding, dates>>

HostCallFrame ==
    UNCHANGED <<sched_vars, init_vars, wp_vars, cancel_event, start_date, end_date, print_calls,
                after_queue, host_settings>>

\* A host operation of print_document has finished: it returned (ok) or raised.
Log(op, ok) == host_log' = Append(host_log, [op |-> op, ok |-> ok])

\* A property of the host is read or written directly, not through safe_com_call.
DirectCall == UNCHANGED <<com_attempt, com_invocations, last_error, pass_idx>>

\* doc = self.safe_com_call(self.word_app.Documents.Add, ...); a falsy doc fails the job;
\* then doc.ProtectionType decides whether Unprotect is called.
DocumentsAdd ==
    /\ pc = "add"
    /\ \E outcome \in {"ok"} \cup HostErrors, doc \in {"none", "plain", "protected"} :
        /\ Attempt(outcome)
        /\ CASE safe_com_call(outcome, com_attempt, COM_RETRIES) = "retry" ->
                    Continue("add") /\ UNCHANGED <<pass_idx, host_log>>
             [] safe_com_call(outcome, com_attempt, COM_RETRIES) = "raise" ->
                    Log("open", FALSE) /\ JobReturns(FALSE, outcome)
             [] safe_com_call(outcome, com_attempt, COM_RETRIES) = "return" ->
                    IF doc = "none"
                    THEN Log("open", FALSE) /\ JobReturns(FALSE, ErrCreateFailed)
                    ELSE /\ Log("open", TRUE)
                         /\ Continue(IF doc = "protected" THEN "unprotect" ELSE "replace")
                         /\ UNCHANGED pass_idx
    /\ UNCHANGED <<active_printer, old_printer, job_error>>
    /\ HostCallFrame

\* try: self.safe_com_call(doc.Unprotect) except Exception: logger.warning(...)
Unprotect ==
    /\ pc = "unprotect"
    /\ \E outcome \in {"ok"} \cup HostErrors :
        /\ Attempt(outcome)
        /\ IF safe_com_call(outcome, com_attempt, COM_RETRIES) = "retry"
           THEN Continue("unprotect") /\ UNCHANGED host_log
           ELSE Continue("replace") /\ Log("unprotect", outcome = "ok")
        /\ UNCHANGED pass_idx
    /\ UNCHANGED <<active_printer, old_printer, job_error>>
    /\ HostCallFrame

\* replace_dates: each _execute_replace pass runs Find.Execute through safe_com_call on
\* every story range; an error that safe_com_call raises goes to the except clause.
FindExecute ==
    /\ pc = "replace"
    /\ \E outcome \in {"ok"} \cup HostErrors :
        /\ Attempt(outcome)
        /\ CASE safe_com_call(outcome, com_attempt, COM_RETRIES) = "retry" ->
                    Continue("replace") /\ UNCHANGED <<pass_idx, host_log, job_error>>
             [] safe_com_call(outcome, com_attempt, COM_RETRIES) = "raise" ->
                    /\ Log("rewrite", FALSE)
                    /\ job_error' = outcome
                    /\ Continue("cleanup")
                    /\ UNCHANGED pass_idx
             [] safe_com_call(outcome, com_attempt, COM_RETRIES) = "return" ->
                    IF pass_idx + 1 < ReplacePasses * NumStories
                    THEN /\ Continue("replace")
                         /\ pass_idx' = pass_idx + 1
                         /\ UNCHANGED <<host_log, job_error>>
                    ELSE /\ Continue("set_printer")
                         /\ pass_idx' = 0
                         /\ Log("rewrite", TRUE)
                         /\ UNCHANGED job_error
    /\ UNCHANGED <<active_printer, old_printer>>
    /\ HostCallFrame

set_printer_Never(printer_name, old) == FALSE

\* if printer_name != old_printer: self.word_app.ActivePrinter = printer_name
set_printer(printer_name, old) == printer_name # old

\* old_printer = self.word_app.ActivePrinter, read before the inner try; then the
\* target printer is made the active printer unless it already is.
SetPrinter ==
    /\ pc = "set_printer"
    /\ \E read \in {"ok"} \cup HostErrors, write \in {"ok"} \cup HostErrors :
        IF read # "ok"
        THEN /\ Log("get_printer", FALSE)
             /\ job_error' = read
             /\ Continue("cleanup")
             /\ UNCHANGED <<active_printer, old_printer>>
        ELSE /\ old_printer' = active_printer
             /\ IF ~set_printer(TargetPrinter, active_printer)
                THEN /\ Continue("printout")
                     /\ UNCHANGED <<host_log, active_printer, job_error>>
                ELSE IF write = "ok"
                THEN /\ active_printer' = TargetPrinter
                     /\ Log("set_printer", TRUE)
                     /\ Continue("printout")
                     /\ UNCHANGED job_error
                ELSE /\ Log("set_printer", FALSE)
                     /\ job_error' = write
                     /\ Continue("restore")
                     /\ UNCHANGED active_printer
    /\ DirectCall
    /\ HostCallFrame

\* self.safe_com_call(doc.PrintOut, Background=False), inside the inner try
PrintOut ==
    /\ pc = "printout"
    /\ \E outcome \in {"ok"} \cup HostErrors :
        /\ Attempt(outcome)
        /\ CASE safe_com_call(outcome, com_attempt, COM_RETRIES) = "retry" ->
                    Continue("printout") /\ UNCHANGED <<host_log, job_error>>
             [] safe_com_call(outcome, com_attempt, COM_RETRIES) = "raise" ->
                    /\ Log("print", FALSE)
                    /\ job_error' = outcome
                    /\ Continue("restore")
             [] safe_com_call(outcome, com_attempt, COM_RETRIES) = "return" ->
                    /\ Log("print", TRUE)
                    /\ Continue("restore")
                    /\ UNCHANGED job_error
    /\ UNCHANGED <<pass_idx, active_printer, old_printer>>
    /\ HostCallFrame

restores_printer_Never(printer_name, old) == FALSE

\* finally: if old_printer and old_printer != printer_name
restores_printer(printer_name, old) == old # "" /\ old # printer_name

\* The finally clause of the inner try: the previous printer is made the active printer
\* again; a failure is logged. Then the exception, if any, goes on to the except clause.
RestorePrinter ==
    /\ pc = "restore"
    /\ IF restores_printer(TargetPrinter, old_printer)
       THEN \E ok \in BOOLEAN :
                /\ Log("restore_printer", ok)
                /\ active_printer' = (IF ok THEN old_printer ELSE active_printer)
       ELSE UNCHANGED <<host_log, active_printer>>
    /\ Continue(IF job_error # "" THEN "cleanup" ELSE "close")
    /\ UNCHANGED <<old_printer, job_error>>
    /\ DirectCall
    /\ HostCallFrame

\* self.safe_com_call(doc.Close, CLOSE_NO_SAVE); doc = None; return True, None
DocClose ==
    /\ pc = "close"
    /\ \E outcome \in {"ok"} \cup HostErrors :
        /\ Attempt(outcome)
        /\ CASE safe_com_call(outcome, com_attempt, COM_RETRIES) = "retry" ->
                    Continue("close") /\ UNCHANGED <<pass_idx, host_log, job_error>>
             [] safe_com_call(outcome, com_attempt, COM_RETRIES) = "raise" ->
                    /\ Log("close", FALSE)
                    /\ job_error' = outcome
                    /\ Continue("cleanup")
                    /\ UNCHANGED pass_idx
             [] safe_com_call(outcome, com_attempt, COM_RETRIES) = "return" ->
                    /\ Log("close", TRUE)
                    /\ JobReturns(TRUE, "")
                    /\ UNCHANGED job_error
    /\ UNCHANGED <<active_printer, old_printer>>
    /\ HostCallFrame

cleanup_error_Replaces(original, cleanup) == IF cleanup = "ok" THEN original ELSE cleanup

\* except Exception as e: return False, str(e); the cleanup's own error is only logged
cleanup_error(original, cleanup) == original

\* The except and finally clauses of print_document: doc is still set, so doc.Close is
\* called directly, once, and (False, str(e)) is returned for the exception e.
CleanupClose ==
    /\ pc = "cleanup"
    /\ \E outcome \in {"ok"} \cup HostErrors :
        /\ Log("cleanup_close", outcome = "ok")
        /\ JobReturns(FALSE, cleanup_error(job_error, outcome))
    /\ UNCHANGED <<com_attempt, com_invocations, last_error, active_printer, old_printer,
                   job_error>>
    /\ HostCallFrame

(***************************************************************************)
(* The ways out of the run                                                 *)
(***************************************************************************)
ShowInfo(title) == [kind |-> "show_info", msg |-> title, progress |-> 0]
ShowError(title) == [kind |-> "show_error", msg |-> title, progress |-> 0]
ShowFailureSummary(n) == [kind |-> "show_failure_summary", msg |-> "failed", progress |-> n]
ResetUi == [kind |-> "reset_ui", msg |-> "", progress |-> 0]

\* After the loop: "Complete!" and the success message or the failure summary.
Complete ==
    /\ pc = "complete"
    /\ after_queue' =
         safe_after(safe_after(after_queue, StatusUpdate("Complete!", 100)),
                    IF failed_operations # <<>>
                    THEN ShowFailureSummary(Len(failed_operations))
                    ELSE ShowInfo("Success"))
    /\ pc' = "exit_with"
    /\ UNCHANGED <<sched_vars, init_vars, wp_vars, call_vars, cancel_event, start_date, end_date,
                   dates, date_idx, job_index, failed_operations, unwinding, cur_shift,
                   print_calls, print_results>>

shutdown_SkippedOnException ==
    IF ~word_app \/ unwinding = "exception" THEN UNCHANGED wp_vars
    ELSE /\ quit_calls' = quit_calls + 1
         /\ quit_raised' \in BOOLEAN
         /\ word_app' = FALSE
         /\ wp_initialized' = FALSE
         /\ com_registered' = com_registered - 1
         /\ releases' = releases + 1
         /\ UNCHANGED sessions_opened

\* WordProcessor.shutdown: nothing without a handle; else Quit is requested (whether it
\* succeeds or raises, which is logged and swallowed) and, in the finally clause, the
\* handle and the COM registration are released.
shutdown_QuitFailureKeepsHandle ==
    IF ~word_app THEN UNCHANGED wp_vars
    ELSE \E quit_ok \in BOOLEAN :
         /\ quit_calls' = quit_calls + 1
         /\ quit_raised' = ~quit_ok
         /\ IF quit_ok
            THEN /\ word_app' = FALSE
                 /\ wp_initialized' = FALSE
                 /\ com_registered' = com_registered - 1
                 /\ releases' = releases + 1
            ELSE UNCHANGED <<word_app, wp_initialized, com_registered, releases>>
         /\ UNCHANGED sessions_opened

shutdown ==
    IF ~word_app THEN UNCHANGED wp_vars
    ELSE \E quit_ok \in BOOLEAN :
         /\ quit_calls' = quit_calls + 1
         /\ quit_raised' = ~quit_ok
         /\ word_app' = FALSE
         /\ wp_initialized' = FALSE
         /\ com_registered' = com_registered - 1
         /\ releases' = releases + 1
         /\ UNCHANGED sessions_opened

\* __exit__ at the end of the with block, on a return inside it, or on an exception:
\* it calls shutdown() and does not suppress the exception.
ExitSession ==
    /\ pc = "exit_with"
    /\ shutdown
    /\ pc' = IF unwinding = "exception" THEN "except" ELSE "finally"
    /\ UNCHANGED <<sched_vars, init_vars, call_vars, cancel_event, start_date, end_date, dates,
                   date_idx, job_index, failed_operations, unwinding, cur_shift,
                   print_calls, print_results, after_queue>>

ExceptHandler_Silent ==
    /\ pc = "except"
    /\ pc' = "finally"
    /\ UNCHANGED <<sched_vars, init_vars, wp_vars, call_vars, cancel_event, start_date,
                   end_date, dates, date_idx, job_index, failed_operations, unwinding,
                   cur_shift, print_calls, print_results, after_queue>>

\* except Exception as e: show_error("Processing Error", ...)
ExceptHandler ==
    /\ pc = "except"
    /\ after_queue' = safe_after(after_queue, ShowError("Processing Error"))
    /\ pc' = "finally"
    /\ UNCHANGED <<sched_vars, init_vars, wp_vars, call_vars, cancel_event, start_date, end_date,
                   dates, date_idx, job_index, failed_operations, unwinding, cur_shift,
                   print_calls, print_results>>

\* finally: self._safe_after(reset_ui); _process_batch is about to return
Finally ==
    /\ pc = "finally"
    /\ after_queue' = safe_after(after_queue, ResetUi)
    /\ pc' = "thread_exit"
    /\ UNCHANGED <<sched_vars, init_vars, wp_vars, call_vars, cancel_event, start_date, end_date,
                   dates, date_idx, job_index, failed_operations, unwinding, cur_shift,
                   print_calls, print_results>>

\* _process_batch has returned: the worker thread ends and is_alive() becomes False
ThreadExits ==
    /\ pc = "thread_exit"
    /\ pc' = "done"
    /\ UNCHANGED <<sched_vars, init_vars, wp_vars, call_vars, cancel_event, start_date, end_date,
                   dates, date_idx, job_index, failed_operations, unwinding, cur_shift,
                   print_calls, print_results, after_queue>>

Next ==
    \/ CancelRequest
    \/ ProcessBatchBegin
    \/ EnterSession
    \/ TryDispatchAttempt
    \/ ConfigureWord
    \/ EvalDateRange
    \/ CheckCancelDate
    \/ CheckCancelDay
    \/ CheckCancelNight
    \/ PrintShiftCall
    \/ PrintDocumentReturn
    \/ Complete
    \/ ExitSession
    \/ ExceptHandler
    \/ Finally
    \/ ThreadExits

Spec == Init /\ [][Next]_vars

(***************************************************************************)
(* SpecJob: the same run, with every job followed through print_document   *)
(* one host call attempt at a time.                                        *)
(***************************************************************************)
InitJob == InitRun(JobDays) /\ active_printer \in HostPrinters

NextJob ==
    \/ CancelRequest
    \/ ProcessBatchBegin
    \/ EnterSession
    \/ TryDispatchAttempt
    \/ ConfigureWord
    \/ EvalDateRange
    \/ CheckCancelDate
    \/ CheckCancelDay
    \/ CheckCancelNight
    \/ PrintShiftCall
    \/ PrintDocumentEnter
    \/ DocumentsAdd
    \/ Unprotect
    \/ FindExecute
    \/ SetPrinter
    \/ PrintOut
    \/ RestorePrinter
    \/ DocClose
    \/ CleanupClose
    \/ Complete
    \/ ExitSession
    \/ ExceptHandler
    \/ Finally
    \/ ThreadExits

SpecJob == InitJob /\ [][NextJob]_vars

(***************************************************************************)
(* SpecUi: the batch run together with the UI thread, which runs the       *)
(* callbacks the worker scheduled, in the order they were scheduled.       *)
(***************************************************************************)
\* A message box: show_info, show_warning or show_error with a title and a message.
Dialog(kind, title, message) == [kind |-> kind, msg |-> title, detail |-> message]

\* op["date"].strftime("%m/%d/%Y")
FormatDate(d) == <<d.month, d.day, d.year>>

ReportHeader == <<"date", "shift", "template", "error">>

\* writer.writerow([...]) for one failed operation; op.get("error") or ""
ReportRow(op) ==
    <<FormatDate(op.date), op.shift, op.template, IF op.error = None THEN "" ELSE op.error>>

write_failure_report_HeaderOnly(ops) == <<ReportHeader>>

\* _write_failure_report: the rows of the CSV file when every write succeeds.
write_failure_report(ops) ==
    <<ReportHeader>> \o [i \in 1..Len(ops) |-> ReportRow(ops[i])]

\* What the file system does with the report, as the number of lines that reach the
\* file: all of them, or fewer when a write raises; -1 when the file cannot be created.
ReportWrites(ops) == -1..Len(write_failure_report(ops))

\* _show_failure_summary: the report is written, then the warning names the report
\* when _write_failure_report returned its path.
ShowFailureSummaryCallback ==
    \E lines \in ReportWrites(failed_operations) :
        /\ report_files' =
             (IF lines = -1 THEN report_files
              ELSE Append(report_files,
                          SubSeq(write_failure_report(failed_operations), 1, lines)))
        /\ ui_shown' = Append(ui_shown,
               Dialog("show_warning", "Processing Completed with Errors",
                      IF lines = Len(write_failure_report(failed_operations))
                      THEN "Failure report saved to" ELSE "Log file"))

\* The Tk main loop runs the next callback that was scheduled with root.after(0, cb).
RunUiCallback ==
    /\ ui_pc = "idle"
    /\ ~destroyed
    /\ ui_run < Len(after_queue)
    /\ ui_run' = ui_run + 1
    /\ LET cb == after_queue[ui_run + 1]
       IN  CASE cb.kind = "show_failure_summary" ->
                    /\ ShowFailureSummaryCallback
                    /\ UNCHANGED <<btn_state, btn_text, inputs_enabled>>
             [] cb.kind \in {"show_info", "show_error"} ->
                    /\ ui_shown' = Append(ui_shown, Dialog(cb.kind, cb.msg, ""))
                    /\ UNCHANGED <<report_files, btn_state, btn_text, inputs_enabled>>
             [] cb.kind = "reset_ui" /\ ~closing ->
                    \* reset_ui: the inputs are enabled and the button is restored
                    /\ inputs_enabled' = TRUE
                    /\ btn_text' = "START EXECUTION"
                    /\ btn_state' = "normal"
                    /\ UNCHANGED <<ui_shown, report_files>>
             [] OTHER -> UNCHANGED <<ui_shown, report_files, btn_state, btn_text,
                                     inputs_enabled>>
    /\ UNCHANGED <<arg_dt, arg_shift_type, call_result, arg_folder, arg_files,
                   arg_template_name, arg_text, doc_text, rewrites, arg_stories,
                   arg_headers_only, ui_inputs, start_calls, batch_params, prn_vars, mgr_vars,
                   closing, destroyed, threads_started, ui_pc, cancel_calls,
                   run_vars, wp_vars, call_vars, init_vars>>

NextUi ==
    \/ CancelRequest
    \/ ProcessBatchBegin
    \/ EnterSession
    \/ TryDispatchAttempt
    \/ ConfigureWord
    \/ EvalDateRange
    \/ CheckCancelDate
    \/ CheckCancelDay
    \/ CheckCancelNight
    \/ PrintShiftCall
    \/ PrintDocumentReturn
    \/ Complete
    \/ ExitSession
    \/ ExceptHandler
    \/ Finally
    \/ ThreadExits
    \/ RunUiCallback

SpecUi == Init /\ [][NextUi]_vars

(***************************************************************************)
(* SpecPrinter: one call of _check_printer_status. The calling thread      *)
(* submits _do_check to an executor of one worker and waits for the future *)
(* with a timeout inside the executor's with block.                        *)
(***************************************************************************)
\* What the printer and its driver can be like: the status bits the spooler reports,
\* and whether the driver calls return, raise, or never return.
PrinterInputs ==
    [offline : BOOLEAN, error : BOOLEAN, other_bits : BOOLEAN,
     driver : {"returns", "raises", "hangs"}]

Ready == [is_ready |-> TRUE, error |-> None]

\* _do_check: OpenPrinter, GetPrinter(phandle, 2), the offline bit, then the error bit.
do_check(printer) ==
    IF printer.offline THEN [is_ready |-> FALSE, error |-> "Printer is offline."]
    ELSE IF printer.error THEN [is_ready |-> FALSE, error |-> "Printer reported an error state."]
    ELSE Ready

PrinterFrame ==
    UNCHANGED <<arg_dt, arg_shift_type, call_result, arg_folder, arg_files,
                arg_template_name, arg_text, doc_text, rewrites, arg_stories,
                arg_headers_only, ui_inputs, ui_shown, start_calls, batch_params, ui_vars, mgr_vars,
                app_vars, run_vars, wp_vars, call_vars, init_vars, prn_input>>

InitPrinter ==
    /\ RunIdle
    /\ arg_dt = MkDate(2026, 1, 1)
    /\ arg_shift_type = "day"
    /\ call_result = <<>>
    /\ ResolveIdle
    /\ RewriteIdle
    /\ StoriesIdle
    /\ StartIdle
    /\ UiIdle
    /\ ManagerIdle
    /\ AppIdle
    /\ prn_input \in PrinterInputs
    /\ prn_pc = "idle"
    /\ prn_future = "none"
    /\ prn_result = <<>>

\* with ThreadPoolExecutor(max_workers=1) as executor: future = executor.submit(_do_check);
\* the caller then waits in future.result(timeout=PRINTER_STATUS_TIMEOUT).
SubmitCheck ==
    /\ prn_pc = "idle"
    /\ prn_future' = "running"
    /\ prn_pc' = "waiting"
    /\ UNCHANGED prn_result
    /\ PrinterFrame

\* The executor's worker thread comes to the end of _do_check, by a return or by an
\* exception of the driver; a driver call that hangs never gets there.
DoCheckEnds ==
    /\ prn_future = "running"
    /\ prn_input.driver # "hangs"
    /\ prn_future' = (IF prn_input.driver = "raises" THEN "raised" ELSE "finished")
    /\ UNCHANGED <<prn_pc, prn_result>>
    /\ PrinterFrame

\* future.result(timeout) hands over the outcome of _do_check: its value is returned
\* through the with block, its exception is caught and (True, None) is returned. The
\* executor's shutdown on leaving the with block has no running worker to wait for.
ResultArrives ==
    /\ prn_pc = "waiting"
    /\ prn_future \in {"finished", "raised"}
    /\ prn_result' = <<IF prn_future = "finished" THEN do_check(prn_input) ELSE Ready>>
    /\ prn_pc' = "returned"
    /\ UNCHANGED prn_future
    /\ PrinterFrame

\* The timeout passes with the future still running: future.result raises
\* FuturesTimeoutError inside the with block, and the exception leaves the block through
\* ThreadPoolExecutor.__exit__, which is shutdown(wait=True).
TimeoutElapses ==
    /\ prn_pc = "waiting"
    /\ prn_future = "running"
    /\ prn_pc' = "executor_exit"
    /\ UNCHANGED <<prn_future, prn_result>>
    /\ PrinterFrame

\* shutdown(wait=True) joins the worker thread, so it returns once _do_check has ended;
\* then except FuturesTimeoutError returns (True, None).
ExecutorExit ==
    /\ prn_pc = "executor_exit"
    /\ prn_future # "running"
    /\ prn_result' = <<Ready>>
    /\ prn_pc' = "returned"
    /\ UNCHANGED prn_future
    /\ PrinterFrame

NextPrinter ==
    \/ SubmitCheck
    \/ DoCheckEnds
    \/ ResultArrives
    \/ TimeoutElapses
    \/ ExecutorExit

\* Every thread that can take a step takes one in the end.
SpecPrinter == InitPrinter /\ [][NextPrinter]_vars /\ WF_vars(NextPrinter)

(***************************************************************************)
(* SpecManager: one WordProcessor whose initialize, shutdown and           *)
(* safe_com_call are called, in any order, from the UI thread and from a   *)
(* worker thread.                                                          *)
(***************************************************************************)
\* Most calls made on the manager.
MaxManagerCalls == 4

Threads == {UiThread, WorkerThread}

ErrWrongThread == "COM call attempted from wrong thread."

\* What the host function of a safe_com_call does on its successive invocations.
FuncBehaviours ==
    {<<"ok">>, <<ErrOther>>, <<ErrRejected, "ok">>, [i \in 1..COM_RETRIES |-> ErrRejected]}

wrong_thread_Never(current_thread, thread_id) == FALSE

\* safe_com_call: self._thread_id is not None and current_thread != self._thread_id
wrong_thread(current_thread, thread_id) ==
    thread_id # None /\ current_thread # thread_id

\* The loop of safe_com_call from the given attempt on: the number of invocations of the
\* host function and the error that is raised ("" when the call returns).
RECURSIVE call_loop(_, _)
call_loop(outs, attempt) ==
    LET step == safe_com_call(outs[attempt + 1], attempt, COM_RETRIES)
    IN  IF step = "retry" THEN call_loop(outs, attempt + 1)
        ELSE [invocations |-> attempt + 1,
              error |-> IF step = "return" THEN "" ELSE outs[attempt + 1]]

ManagerFrame ==
    UNCHANGED <<arg_dt, arg_shift_type, call_result, arg_folder, arg_files,
                arg_template_name, arg_text, doc_text, rewrites, arg_stories,
                arg_headers_only, ui_inputs, ui_shown, start_calls, batch_params, ui_vars, prn_vars,
                app_vars, run_vars, strategy_idx, dispatch_attempt, last_attempt, com_attempt,
                pass_idx, job_vars>>

ManagerCall(t, op) ==
    /\ mgr_calls < MaxManagerCalls
    /\ mgr_calls' = mgr_calls + 1
    /\ mgr_thread' = t
    /\ mgr_op' = op

InitManager ==
    /\ RunIdle
    /\ arg_dt = MkDate(2026, 1, 1)
    /\ arg_shift_type = "day"
    /\ call_result = <<>>
    /\ ResolveIdle
    /\ RewriteIdle
    /\ StoriesIdle
    /\ StartIdle
    /\ UiIdle
    /\ PrinterIdle
    /\ ManagerIdle
    /\ AppIdle

already_initialized_Ignored == FALSE

\* initialize: if self._initialized: return
already_initialized == wp_initialized

\* initialize() as one call: nothing on an initialised manager; RuntimeError with
\* nothing registered; or COM is registered, the thread recorded, and then the
\* connection succeeds, is exhausted, or a setter of the application object raises.
ManagerInitialize ==
    \E t \in Threads :
        /\ ManagerCall(t, "initialize")
        /\ IF already_initialized
           THEN /\ mgr_raised' = None
                /\ UNCHANGED <<wp_vars, wp_thread_id, host_settings>>
           ELSE \E outcome \in {"not_registered", "exhausted", "config_failed", "ok"},
                   failed_at \in 1..NumSettings :
                /\ outcome = "config_failed" \/ failed_at = 1
                /\ IF outcome = "not_registered"
                   THEN /\ mgr_raised' = "RuntimeError"
                        /\ UNCHANGED <<wp_vars, wp_thread_id, host_settings>>
                   ELSE /\ mgr_raised' = (IF outcome = "ok" THEN None ELSE "RuntimeError")
                        /\ host_settings' =
                              (CASE outcome = "exhausted" -> host_settings
                                 [] outcome = "config_failed" -> configure(HostDefaults, failed_at)
                                 [] outcome = "ok" -> configure(HostDefaults, 0))
                        /\ wp_thread_id' = t
                        /\ word_app' = (outcome # "exhausted")
                        /\ wp_initialized' = (outcome = "ok")
                        /\ com_registered' = com_registered + (IF outcome = "ok" THEN 1 ELSE 0)
                        /\ sessions_opened' = sessions_opened + (IF outcome = "ok" THEN 1 ELSE 0)
                        /\ UNCHANGED <<quit_calls, quit_raised, releases>>
        /\ UNCHANGED <<com_invocations, last_error>>
        /\ ManagerFrame

\* shutdown() from any thread: a call from another thread than _thread_id is logged.
ManagerShutdown ==
    \E t \in Threads :
        /\ ManagerCall(t, "shutdown")
        /\ shutdown
        \* the except clause around Quit logs the failure; nothing reaches the caller
        /\ mgr_raised' = None
        /\ UNCHANGED <<wp_thread_id, com_invocations, last_error, host_settings>>
        /\ ManagerFrame

\* safe_com_call(func) from any thread: the thread check, then the retry loop.
ManagerSafeComCall ==
    \E t \in Threads, outs \in FuncBehaviours :
        /\ ManagerCall(t, "safe_com_call")
        /\ IF wrong_thread(t, wp_thread_id)
           THEN /\ com_invocations' = 0
                /\ last_error' = ErrWrongThread
                /\ mgr_raised' = "RuntimeError"
           ELSE /\ com_invocations' = call_loop(outs, 0).invocations
                /\ last_error' = call_loop(outs, 0).error
                /\ mgr_raised' = (IF call_loop(outs, 0).error = "" THEN None
                                  ELSE call_loop(outs, 0).error)
        /\ UNCHANGED <<wp_vars, wp_thread_id, host_settings>>
        /\ ManagerFrame

NextManager ==
    \/ ManagerInitialize
    \/ ManagerShutdown
    \/ ManagerSafeComCall

SpecManager == InitManager /\ [][NextManager]_vars

(***************************************************************************)
(* SpecStart: the start command. The UI thread runs start_processing with  *)
(* whatever the input fields, the printer list, the folders and the user   *)
(* answer.                                                                 *)
(***************************************************************************)
\* Most uses of the start command that are followed.
MaxStarts == 2

LARGE_BATCH_THRESHOLD == 30

DEFAULT_PRINTER_LABEL == "Choose Printer"

\* What start_processing can be given: a folder field is empty, names a folder that
\* validate_folder_path accepts, or one it rejects; the lookups of the required
\* templates of a folder find them all, miss one, or raise a lookup error.
UiInputs ==
    [day_folder : {"", "valid", "invalid"},
     night_folder : {"", "valid", "invalid"},
     printer_name : {"", DEFAULT_PRINTER_LABEL, "Printer A", "Printer X"},
     available_printers : {<<>>, <<"Printer A">>},
     start_date : {NoDate, MkDate(2026, 1, 14)},
     end_date : {NoDate, MkDate(2026, 1, 13), MkDate(2026, 1, 14), MkDate(2026, 2, 2),
                 MkDate(2026, 2, 12), MkDate(2027, 1, 14)},
     word_status : BOOLEAN,
     day_lookup : {"found", "missing", "error"},
     night_lookup : {"found", "missing", "error"},
     confirm : BOOLEAN]

preflight_templates_NightUnchecked(ui) ==
    IF ui.day_lookup = "error" THEN "Day template lookup error"
    ELSE IF ui.day_lookup = "missing" THEN "Missing required templates"
    ELSE ""

\* _preflight_templates: the message of the failure, or "" when every required
\* template of both folders is found.
preflight_templates(ui) ==
    IF ui.day_lookup = "error" THEN "Day template lookup error"
    ELSE IF ui.night_lookup = "error" THEN "Night template lookup error"
    ELSE IF ui.day_lookup = "missing" \/ ui.night_lookup = "missing"
    THEN "Missing required templates"
    ELSE ""

\* _validate_inputs: the message of the first check that fails, or "" when valid.
validate_inputs(ui) ==
    IF ui.day_folder = "" THEN "Please select a Day Templates folder"
    ELSE IF ui.night_folder = "" THEN "Please select a Night Templates folder"
    ELSE IF ui.printer_name = "" \/ ui.printer_name = DEFAULT_PRINTER_LABEL
    THEN "Please select a target printer"
    ELSE IF /\ ui.available_printers # <<>>
            /\ \A i \in 1..Len(ui.available_printers) :
                  ui.available_printers[i] # ui.printer_name
    THEN "Selected printer is not available"
    ELSE IF ui.start_date = NoDate \/ ui.end_date = NoDate
    THEN "Please select both start and end dates"
    ELSE IF validate_date_range(ui.start_date, ui.end_date) # ""
    THEN validate_date_range(ui.start_date, ui.end_date)
    ELSE IF ~ui.word_status THEN "Word automation is not available"
    ELSE IF ui.day_folder # "valid" THEN "Invalid Day Templates folder"
    ELSE IF ui.night_folder # "valid" THEN "Invalid Night Templates folder"
    ELSE preflight_templates(ui)

\* Most worker threads started.
MaxThreads == 1

thread_alive_Never == FALSE

\* self._processing_thread and self._processing_thread.is_alive()
thread_alive == pc # "done"

ShowWarning(title, message) == [kind |-> "show_warning", msg |-> title, detail |-> message]

\* ui.ask_yes_no("Large Batch Confirm", ...) and the user's answer
AskYesNo(answer) == [kind |-> "ask_yes_no", msg |-> "Large Batch Confirm", detail |-> answer]

needs_confirmation_Never(total_days) == FALSE

\* start_processing: total_days >= LARGE_BATCH_THRESHOLD
needs_confirmation(total_days) == total_days >= LARGE_BATCH_THRESHOLD

UiStatus(message) == [kind |-> "update_status", msg |-> message, detail |-> ""]

InitStart ==
    /\ RunIdle
    /\ arg_dt = MkDate(2026, 1, 1)
    /\ arg_shift_type = "day"
    /\ call_result = <<>>
    /\ ResolveIdle
    /\ RewriteIdle
    /\ StoriesIdle
    /\ ui_inputs \in UiInputs
    /\ ui_shown = <<>>
    /\ start_calls = 0
    /\ batch_params = NoParams
    /\ UiIdle
    /\ PrinterIdle
    /\ ManagerIdle
    /\ AppIdle

\* start_processing: with a worker alive it is the stop button; else the inputs are
\* validated, a large batch is confirmed, the cancel flag is cleared, the parameters
\* are snapshotted and the worker thread is started.
cancel_event_clear_Skipped == cancel_event

\* self._cancel_event.clear()
cancel_event_clear == FALSE

StartProcessing ==
    /\ ui_pc = "idle"
    /\ ~destroyed
    /\ start_calls < MaxStarts
    /\ thread_alive \/ threads_started < MaxThreads
    /\ start_calls' = start_calls + 1
    /\ IF thread_alive
       THEN /\ cancel_event' = TRUE
            /\ ui_shown' = Append(ui_shown, UiStatus("Stopping after current document..."))
            /\ btn_state' = "disabled"
            /\ UNCHANGED <<pc, start_date, end_date, dates, date_idx, job_index, unwinding,
                           cur_shift, btn_text, inputs_enabled, threads_started, batch_params>>
       ELSE IF validate_inputs(ui_inputs) # ""
       THEN /\ ui_shown' = Append(ui_shown,
                    ShowWarning("Validation Error", validate_inputs(ui_inputs)))
            /\ UNCHANGED <<pc, cancel_event, start_date, end_date, dates, date_idx,
                           job_index, unwinding, cur_shift, btn_state, btn_text,
                           inputs_enabled, threads_started, batch_params>>
       ELSE IF /\ needs_confirmation(
                      compute_batch_size(ui_inputs.start_date, ui_inputs.end_date).total_days)
               /\ ~ui_inputs.confirm
       THEN /\ ui_shown' = ui_shown \o <<AskYesNo("no"), UiStatus("Cancelled by user")>>
            /\ UNCHANGED <<pc, cancel_event, start_date, end_date, dates, date_idx,
                           job_index, unwinding, cur_shift, btn_state, btn_text,
                           inputs_enabled, threads_started, batch_params>>
       ELSE /\ cancel_event' = cancel_event_clear
            /\ start_date' = ui_inputs.start_date
            /\ end_date' = ui_inputs.end_date
            /\ batch_params' = collect_params(ui_inputs)
            /\ inputs_enabled' = FALSE
            /\ btn_text' = "STOP EXECUTION"
            \* a new thread runs _process_batch with fresh locals
            /\ threads_started' = threads_started + 1
            /\ pc' = "begin"
            /\ dates' = <<>>
            /\ date_idx' = 0
            /\ job_index' = 0
            /\ unwinding' = ""
            /\ cur_shift' = ""
            /\ ui_shown' =
                 (IF needs_confirmation(
                        compute_batch_size(ui_inputs.start_date, ui_inputs.end_date).total_days)
                  THEN Append(ui_shown, AskYesNo("yes")) ELSE ui_shown)
            /\ UNCHANGED btn_state
    /\ UNCHANGED <<arg_dt, arg_shift_type, call_result, arg_folder, arg_files,
                   arg_template_name, arg_text, doc_text, rewrites, arg_stories,
                   arg_headers_only, ui_inputs, failed_operations, print_calls,
                   print_results, after_queue, wp_vars, call_vars, init_vars, ui_vars,
                   prn_vars, mgr_vars, closing, destroyed, ui_pc, cancel_calls>>

NextStart == StartProcessing

SpecStart == InitStart /\ [][NextStart]_vars

(***************************************************************************)
(* The application: the UI thread's commands (start, Escape, closing the   *)
(* window, the main loop's callbacks) interleaved with the worker thread.  *)
(***************************************************************************)
\* Most Escape presses considered.
MaxCancels == 1

\* What the UI thread's commands leave alone.
CommandFrame ==
    UNCHANGED <<arg_dt, arg_shift_type, call_result, arg_folder, arg_files,
                arg_template_name, arg_text, doc_text, rewrites, arg_stories,
                arg_headers_only, ui_inputs, start_calls, batch_params, ui_vars, prn_vars, mgr_vars,
                pc, start_date, end_date, dates, date_idx, job_index, failed_operations,
                unwinding, cur_shift, print_calls, print_results, after_queue,
                wp_vars, call_vars, init_vars, btn_text, inputs_enabled,
                threads_started>>

\* _cancel_if_running (Escape): with a worker alive the cancel flag is set, the status
\* reads "Stopping after current document..." and the button is disabled; else nothing.
CancelIfRunning ==
    /\ ui_pc = "idle"
    /\ ~destroyed
    /\ cancel_calls < MaxCancels
    /\ cancel_calls' = cancel_calls + 1
    /\ IF thread_alive
       THEN /\ cancel_event' = TRUE
            /\ ui_shown' = Append(ui_shown, UiStatus("Stopping after current document..."))
            /\ btn_state' = "disabled"
       ELSE UNCHANGED <<cancel_event, ui_shown, btn_state>>
    /\ UNCHANGED <<closing, destroyed, ui_pc>>
    /\ CommandFrame

\* _on_close up to the join: _closing is set; with a worker alive the cancel flag is set
\* and the UI thread waits in join(timeout); with none the window is destroyed at once.
OnCloseBegin ==
    /\ ui_pc = "idle"
    /\ ~destroyed
    /\ closing' = TRUE
    /\ IF thread_alive
       THEN /\ cancel_event' = TRUE
            /\ ui_pc' = "joining"
            /\ UNCHANGED destroyed
       ELSE /\ destroyed' = TRUE
            /\ ui_pc' = "closed"
            /\ UNCHANGED cancel_event
    /\ UNCHANGED <<ui_shown, btn_state, cancel_calls>>
    /\ CommandFrame

\* _on_close after the join: the join returns because the worker ended or because the
\* timeout elapsed, and root.destroy() is called.
OnCloseDestroy ==
    /\ ui_pc = "joining"
    /\ destroyed' = TRUE
    /\ ui_pc' = "closed"
    /\ UNCHANGED <<cancel_event, ui_shown, btn_state, closing, cancel_calls>>
    /\ CommandFrame

\* The worker thread's steps of one batch run.
WorkerNext ==
    \/ ProcessBatchBegin
    \/ EnterSession
    \/ TryDispatchAttempt
    \/ ConfigureWord
    \/ EvalDateRange
    \/ CheckCancelDate
    \/ CheckCancelDay
    \/ CheckCancelNight
    \/ PrintShiftCall
    \/ PrintDocumentReturn
    \/ Complete
    \/ ExitSession
    \/ ExceptHandler
    \/ Finally
    \/ ThreadExits

\* Inputs that pass validation and name a one-day range.
AppInputs ==
    {ui \in UiInputs : /\ validate_inputs(ui) = ""
                       /\ ui.start_date = ui.end_date}

InitApp ==
    /\ RunIdle
    /\ arg_dt = MkDate(2026, 1, 1)
    /\ arg_shift_type = "day"
    /\ call_result = <<>>
    /\ ResolveIdle
    /\ RewriteIdle
    /\ StoriesIdle
    /\ ui_inputs \in AppInputs
    /\ ui_shown = <<>>
    /\ start_calls = 0
    /\ batch_params = NoParams
    /\ UiIdle
    /\ PrinterIdle
    /\ ManagerIdle
    /\ AppIdle

NextApp ==
    \/ StartProcessing
    \/ CancelIfRunning
    \/ OnCloseBegin
    \/ OnCloseDestroy
    \/ RunUiCallback
    \/ WorkerNext

SpecApp == InitApp /\ [][NextApp]_vars

(***************************************************************************)
(* The application while the user goes on editing the inputs.              *)
(***************************************************************************)
\* A complete input for one day, and what the user may turn it into: other dates, or
\* another printer and other folders.
RunInputs ==
    [day_folder |-> "valid", night_folder |-> "valid", printer_name |-> TargetPrinter,
     available_printers |-> <<TargetPrinter>>, start_date |-> MkDate(2026, 1, 14),
     end_date |-> MkDate(2026, 1, 14), word_status |-> TRUE, day_lookup |-> "found",
     night_lookup |-> "found", confirm |-> FALSE]

EditedInputs ==
    {RunInputs,
     [RunInputs EXCEPT !.start_date = NoDate, !.end_date = MkDate(2026, 2, 2)],
     [RunInputs EXCEPT !.printer_name = "Printer X", !.day_folder = "invalid",
                       !.night_folder = ""]}

\* The user changes an entry, a date or the printer selection: the widgets' values
\* change and nothing else does.
EditInputs ==
    /\ ui_pc = "idle"
    /\ ~destroyed
    /\ ui_inputs' \in EditedInputs \ {ui_inputs}
    /\ UNCHANGED <<arg_dt, arg_shift_type, call_result, arg_folder, arg_files,
                   arg_template_name, arg_text, doc_text, rewrites, arg_stories,
                   arg_headers_only, ui_shown, start_calls, batch_params, ui_vars, prn_vars,
                   mgr_vars, app_vars, run_vars, wp_vars, call_vars, init_vars>>

InitEdit ==
    /\ RunIdle
    /\ arg_dt = MkDate(2026, 1, 1)
    /\ arg_shift_type = "day"
    /\ call_result = <<>>
    /\ ResolveIdle
    /\ RewriteIdle
    /\ StoriesIdle
    /\ ui_inputs \in EditedInputs
    /\ ui_shown = <<>>
    /\ start_calls = 0
    /\ batch_params = NoParams
    /\ UiIdle
    /\ PrinterIdle
    /\ ManagerIdle
    /\ AppIdle

NextEdit ==
    \/ EditInputs
    \/ StartProcessing
    \/ RunUiCallback
    \/ WorkerNext

SpecEdit == InitEdit /\ [][NextEdit]_vars

(***************************************************************************)
(* One invocation of _process_batch, with any parameters, next to the UI   *)
(* thread: Escape, the stop button, closing the window, the callbacks.     *)
(***************************************************************************)
\* The worker thread has just been started on _process_batch(params); params carries
\* a one-day range, or lacks a date.
InitWorker ==
    /\ SchedIdle
    /\ AppRunning
    /\ pc = "begin"
    /\ cancel_event = FALSE
    /\ start_date \in StartDates \cup {NoDate}
    /\ end_date \in {start_date, NoDate}
    /\ dates = <<>>
    /\ date_idx = 0
    /\ job_index = 0
    /\ failed_operations = <<>>
    /\ word_app = FALSE
    /\ wp_initialized = FALSE
    /\ com_registered = 0
    /\ quit_calls = 0
    /\ quit_raised = FALSE
    /\ releases = 0
    /\ sessions_opened = 0
    /\ unwinding = ""
    /\ cur_shift = ""
    /\ com_attempt = 0
    /\ com_invocations = 0
    /\ last_error = ""
    /\ pass_idx = 0
    /\ host_log = <<>>
    /\ old_printer = None
    /\ job_error = ""
    /\ host_settings = HostDefaults
    /\ active_printer = OtherPrinter
    /\ print_calls = <<>>
    /\ print_results = <<>>
    /\ after_queue = <<>>
    /\ strategy_idx = 0
    /\ last_attempt = NoAttempt
    /\ dispatch_attempt = 0
    /\ wp_thread_id = None

NextWorker ==
    \/ WorkerNext
    \/ StartProcessing
    \/ CancelIfRunning
    \/ OnCloseBegin
    \/ OnCloseDestroy
    \/ RunUiCallback

SpecWorker == InitWorker /\ [][NextWorker]_vars

\* The same with a worker that has its dates, and with the scheduling the program
\* relies on: a thread that can take a step takes it, the main loop runs the callbacks
\* queued with after(), and the join of _on_close returns.
InitLive == InitWorker /\ start_date # NoDate /\ end_date # NoDate

NextLive == NextWorker

SpecLive ==
    /\ InitLive
    /\ [][NextLive]_vars
    /\ WF_vars(WorkerNext)
    /\ WF_vars(RunUiCallback)
    /\ WF_vars(OnCloseDestroy)

(***************************************************************************)
(* A run at its end, the requests to cancel it, and the run started next.  *)
(***************************************************************************)
\* The worker of a run is about to return (its parameters carry no dates) while the
\* inputs are complete for a next run. threads_started counts the threads started
\* from here on.
InitRestart ==
    /\ arg_dt = MkDate(2026, 1, 1)
    /\ arg_shift_type = "day"
    /\ call_result = <<>>
    /\ ResolveIdle
    /\ RewriteIdle
    /\ StoriesIdle
    /\ ui_inputs = RunInputs
    /\ ui_shown = <<>>
    /\ start_calls = 0
    /\ batch_params = RunParams
    /\ UiIdle
    /\ PrinterIdle
    /\ ManagerIdle
    /\ btn_state = "normal"
    /\ btn_text = "STOP EXECUTION"
    /\ inputs_enabled = FALSE
    /\ closing = FALSE
    /\ destroyed = FALSE
    /\ threads_started = 0
    /\ ui_pc = "idle"
    /\ cancel_calls = 0
    /\ pc = "begin"
    /\ cancel_event = FALSE
    /\ start_date = NoDate
    /\ end_date = NoDate
    /\ dates = <<>>
    /\ date_idx = 0
    /\ job_index = 0
    /\ failed_operations = <<>>
    /\ word_app = FALSE
    /\ wp_initialized = FALSE
    /\ com_registered = 0
    /\ quit_calls = 0
    /\ quit_raised = FALSE
    /\ releases = 0
    /\ sessions_opened = 0
    /\ unwinding = ""
    /\ cur_shift = ""
    /\ com_attempt = 0
    /\ com_invocations = 0
    /\ last_error = ""
    /\ pass_idx = 0
    /\ host_log = <<>>
    /\ old_printer = None
    /\ job_error = ""
    /\ host_settings = HostDefaults
    /\ active_printer = OtherPrinter
    /\ print_calls = <<>>
    /\ print_results = <<>>
    /\ after_queue = <<>>
    /\ strategy_idx = 0
    /\ last_attempt = NoAttempt
    /\ dispatch_attempt = 0
    /\ wp_thread_id = None

NextRestart ==
    \/ WorkerNext
    \/ StartProcessing
    \/ CancelIfRunning
    \/ RunUiCallback

SpecRestart == InitRestart /\ [][NextRestart]_vars

(***************************************************************************)
(* C10                                                                     *)
(***************************************************************************)
\* The calendar's answer: a Thursday with exactly two earlier Thursdays in its month.
RefThirdThursday(dt) ==
    /\ Weekday(dt) = 3
    /\ Cardinality({d \in 1..(dt.day - 1) : Weekday(MkDate(dt.year, dt.month, d)) = 3}) = 2

\* C10: the day-shift name is "THIRD Thursday" exactly on a third Thursday and the
\* English day name otherwise; the night-shift name is "<day-name> Night", never the
\* special name; any other shift kind is rejected with a ValueError.
C10_ShiftTemplateName ==
    call_result # <<>> =>
        LET r == call_result[1]
            dayName == EN_DAY_NAMES[((ToOrdinal(arg_dt) - 1) % 7) + 1] IN
        /\ arg_shift_type = "day" =>
              /\ r.raised = ""
              /\ RefThirdThursday(arg_dt) <=> r.value = "THIRD Thursday"
              /\ ~RefThirdThursday(arg_dt) => r.value = dayName
        /\ arg_shift_type = "night" =>
              /\ r.raised = ""
              /\ r.value = dayName \o " Night"
              /\ r.value # "THIRD Thursday"
        /\ arg_shift_type \notin {"day", "night"} => r.raised = "ValueError"

C10_Witness ==
    /\ call_result # <<>>
    /\ arg_shift_type = "day"
    /\ arg_dt = MkDate(2026, 1, 15)
    /\ call_result[1].value = "THIRD Thursday"

(***************************************************************************)
(* Claims about the batch run (Spec)                                       *)
(***************************************************************************)
\* The run was left by an exception: initialize(), get_date_range or a job raised.
RunRaised == unwinding = "exception"

\* Number of calendar days of the snapshotted range, both ends included.
RangeDays == (ToOrdinal(end_date) - ToOrdinal(start_date)) + 1

\* C1: a run over N calendar days that is not interrupted (the cancel flag is never set
\* and no exception ends the run) has issued exactly 2N print jobs when it ends, and no
\* run ever issues more than 2N.
C1_TwoJobsPerDay ==
    /\ Len(print_calls) <= 2 * RangeDays
    /\ (pc = "done" /\ ~cancel_event /\ ~RunRaised) =>
          /\ Len(print_calls) = 2 * RangeDays
          /\ Len(print_results) = 2 * RangeDays
          /\ job_index = 2 * RangeDays

C1_Witness ==
    /\ pc = "done" /\ ~cancel_event /\ ~RunRaised
    /\ RangeDays = 2
    /\ Len(print_calls) = 4
    /\ failed_operations # <<>>

\* Position of a job in the run's order: date first, day shift before night shift.
JobKey(job) == (2 * ToOrdinal(job.date)) + (IF job.shift = "day" THEN 0 ELSE 1)

\* C2: jobs are issued strictly in chronological date order, the day-shift job of a date
\* before its night-shift job, starting with the day shift of the start date and without
\* gaps; a job is issued only after every earlier job has returned (no two overlap).
C2_ChronologicalOrder ==
    /\ \A i \in 1..Len(print_calls) :
          /\ print_calls[i].shift \in {"day", "night"}
          /\ JobKey(print_calls[i]) = (2 * ToOrdinal(start_date)) + (i - 1)
    /\ \A i \in 1..(Len(print_calls) - 1) :
          JobKey(print_calls[i]) < JobKey(print_calls[i + 1])
    /\ Len(print_results) <= Len(print_calls)
    /\ Len(print_calls) - Len(print_results) = (IF pc = "printing" THEN 1 ELSE 0)

C2_Witness ==
    /\ pc = "printing"
    /\ Len(print_calls) = 4
    /\ Len(print_results) = 3
    /\ print_calls[4].shift = "night"
    /\ print_calls[4].date = MkDate(2026, 2, 1)
    /\ print_calls[1].date = MkDate(2026, 1, 31)

\* A job has passed its boundary check and has not returned yet.
InJob == pc \in JobPcs

\* C3: when the cancel flag is set and no job is past its boundary check, no further job
\* is started (so a flag set when the run begins yields zero jobs); a job that is past
\* its boundary check when the flag is set still runs to its result.
C3_CancelAtBoundary ==
    [][/\ (cancel_event /\ ~InJob) => (print_calls' = print_calls /\ pc' \notin JobPcs)
       /\ (cancel_event /\ pc = "printing" /\ pc' # pc) =>
              Len(print_results') = Len(print_results) + 1]_vars

C3_Witness ==
    /\ pc = "done"
    /\ cancel_event
    /\ unwinding = "return"
    /\ Len(print_calls) = 3
    /\ Len(print_results) = 3

\* The status updates the run has scheduled so far, in order.
RECURSIVE StatusMessages(_)
StatusMessages(queue) ==
    IF queue = <<>> THEN <<>>
    ELSE (IF queue[1].kind = "update_status" THEN <<queue[1]>> ELSE <<>>)
         \o StatusMessages(Tail(queue))

\* The run ended by the cancel return after a day-shift job and before the same date's
\* night-shift job.
CancelledAfterDayJob ==
    /\ pc = "done"
    /\ unwinding = "return"
    /\ Len(print_calls) >= 1
    /\ print_calls[Len(print_calls)].shift = "day"

\* C4: a run cancelled after the day-shift job of a date and before its night-shift job
\* ends with the distinct status "Cancelled" (no success message, no failure summary)
\* whose reported partial completion is the number of whole jobs completed.
C4_CancelledReportsCount ==
    CancelledAfterDayJob =>
        LET st == StatusMessages(after_queue) IN
        /\ st # <<>>
        /\ st[Len(st)].msg = "Cancelled"
        /\ \A i \in 1..Len(after_queue) :
              after_queue[i].kind \notin {"show_info", "show_failure_summary"}
        /\ Len(print_calls) = job_index
        /\ st[Len(st)].progress = job_index

\* The case of C4 as the code handles it: cancelled after the first day-shift job, the
\* last status is "Cancelled" with the progress reset to 0.
C4_Witness ==
    /\ CancelledAfterDayJob
    /\ job_index = 1
    /\ Len(print_calls) = 1
    /\ StatusMessages(after_queue)[Len(StatusMessages(after_queue))] = StatusUpdate("Cancelled", 0)

\* C6: once a run has ended, whether by normal completion, by the cancel return or by
\* an exception after the session was opened, the session it opened has been shut down
\* exactly once: one Quit request, one release of the handle and of the COM
\* registration, nothing held afterwards; shutdown never runs more often than sessions
\* were opened.
C6_ShutdownExactlyOnce ==
    /\ quit_calls <= sessions_opened
    /\ releases <= sessions_opened
    /\ (pc \in {"except", "finally", "thread_exit", "done"} /\ sessions_opened = 1) =>
          /\ quit_calls = 1
          /\ releases = 1
          /\ ~word_app
          /\ ~wp_initialized
          /\ com_registered = 0
    /\ (pc \in JobPcs \cup BoundaryPcs \cup {"range", "complete"}) =>
          (sessions_opened = 1 /\ quit_calls = 0 /\ word_app /\ wp_initialized)

C6_Witness ==
    /\ pc = "done"
    /\ unwinding = "exception"
    /\ sessions_opened = 1
    /\ Len(print_calls) = 2
    /\ quit_calls = 1
    /\ releases = 1

\* The failure records that the returned results call for, job by job.
RECURSIVE RefFailures(_)
RefFailures(n) ==
    IF n = 0 THEN <<>>
    ELSE RefFailures(n - 1) \o
         (IF print_results[n].raised \/ print_results[n].success THEN <<>>
          ELSE <<[date |-> print_calls[n].date, shift |-> print_calls[n].shift,
                  template |-> print_calls[n].template,
                  error |-> print_results[n].error]>>)

\* C7: every job that returns a failure adds exactly one record holding that job's
\* date, shift kind, template name and error message, and the run goes on to the next
\* job boundary; the failure list only grows during a run, and its length is the number
\* of jobs that have failed so far.
C7_FailureRecords ==
    /\ [](/\ failed_operations = RefFailures(Len(print_results))
          /\ \A i \in 1..Len(failed_operations) :
                /\ failed_operations[i].shift \in {"day", "night"}
                /\ failed_operations[i].error # ""
                /\ failed_operations[i].template =
                      (IF failed_operations[i].shift = "night"
                       THEN EN_DAY_NAMES[((ToOrdinal(failed_operations[i].date) - 1) % 7) + 1] \o " Night"
                       ELSE IF RefThirdThursday(failed_operations[i].date)
                       THEN "THIRD Thursday"
                       ELSE EN_DAY_NAMES[((ToOrdinal(failed_operations[i].date) - 1) % 7) + 1]))
    /\ [][/\ pc # "begin" =>
                /\ Len(failed_operations') >= Len(failed_operations)
                /\ Len(failed_operations') <= Len(failed_operations) + 1
                /\ SubSeq(failed_operations', 1, Len(failed_operations)) = failed_operations
          /\ Len(failed_operations') > Len(failed_operations) =>
                pc' \in BoundaryPcs \cup {"complete"}]_vars

C7_Witness ==
    /\ pc = "done"
    /\ ~RunRaised
    /\ Len(failed_operations) = 2
    /\ failed_operations[1].shift = "day"
    /\ failed_operations[1].template = "THIRD Thursday"
    /\ failed_operations[2].shift = "night"
    /\ failed_operations[2].error = ErrRejected

(***************************************************************************)
(* Claims about the host calls of one job (SpecJob)                        *)
(***************************************************************************)
\* The texts safe_com_call's test accepts as retriable, listed by hand.
RefTransient(e) == e \in {ErrRejected, ErrRejectedUpper}

\* max(1, COM_RETRIES), the attempts every caller of safe_com_call allows.
RefMaxAttempts == IF COM_RETRIES >= 1 THEN COM_RETRIES ELSE 1

\* This step is one attempt of the host call the job is at (the only other step
\* possible there is the foreground thread setting the cancel flag).
HostCallStep == pc \in CallPcs /\ cancel_event' = cancel_event

\* The attempt fails and safe_com_call raises its error.
CallRaises == HostCallStep /\ last_error' # "" /\ com_attempt' = 0

\* The attempt fails and safe_com_call goes on to another attempt.
CallRetries == HostCallStep /\ com_attempt' = com_attempt + 1

\* The attempt succeeds.
CallSucceeds == HostCallStep /\ last_error' = ""

\* The failure record of the job in flight with the error the host call raised.
JobFailure(error) ==
    [date |-> print_calls[Len(print_calls)].date,
     shift |-> print_calls[Len(print_calls)].shift,
     template |-> print_calls[Len(print_calls)].template,
     error |-> error]

\* The job in flight ends as one failure carrying this error.
JobFailsWith(error) ==
    /\ failed_operations' = Append(failed_operations, JobFailure(error))
    /\ print_results' = Append(print_results,
            [raised |-> FALSE, success |-> FALSE, error |-> error])
    /\ pc' \in BoundaryPcs \cup {"complete"}

\* The error just raised is on its way through the finally and except clauses of
\* print_document, which make no further attempt and end the job with that error.
ErrorPropagates ==
    /\ (pc = "restore" /\ job_error # "" /\ cancel_event' = cancel_event) =>
          (pc' = "cleanup" /\ UNCHANGED <<job_error, failed_operations, print_results>>)
    /\ (pc = "cleanup" /\ cancel_event' = cancel_event) => JobFailsWith(job_error)

\* This step ends the job in flight as one failure carrying the error just raised: at
\* once when no document is open, else through the clauses that restore the printer
\* and close the document.
JobFailsWithRaisedError ==
    \/ JobFailsWith(last_error')
    \/ /\ pc' \in {"restore", "cleanup"}
       /\ job_error' = last_error'
       /\ UNCHANGED <<failed_operations, print_results>>

\* C5: once the cancel flag is set, no further retry attempt of the current job's host
\* call is made: a host call that has failed transiently is not invoked again.
C5_NoRetryAfterCancel ==
    [][(cancel_event /\ com_attempt >= 1) => ~HostCallStep]_vars

\* The case of C5: the flag is set while a host call that failed transiently waits for
\* its next attempt.
C5_Witness ==
    /\ cancel_event
    /\ pc \in CallPcs
    /\ com_attempt >= 1
    /\ RefTransient(last_error)

\* A host call that fails transiently on attempt 1 and succeeds on attempt 2 leaves no
\* failure entry for the error, and the job goes on (a Close that recovers ends the job
\* as a success).
RecoveryIsSuccess ==
    (CallSucceeds /\ com_attempt = 1 /\ RefTransient(last_error)) =>
        /\ com_invocations' = 2
        /\ \/ failed_operations' = failed_operations
           \/ /\ pc = "add"
              /\ failed_operations' = Append(failed_operations, JobFailure(ErrCreateFailed))
        /\ pc = "close" =>
              /\ failed_operations' = failed_operations
              /\ print_results' = Append(print_results,
                      [raised |-> FALSE, success |-> TRUE, error |-> ""])
        /\ (pc # "close" /\ failed_operations' = failed_operations) => pc' \in JobPcs

\* A transient error is retried until max(1, retries) invocations have been made.
TransientIsRetried ==
    /\ (HostCallStep /\ last_error' # "" /\ RefTransient(last_error')) =>
          /\ com_invocations' = com_attempt + 1
          /\ com_invocations' <= RefMaxAttempts
          /\ CallRaises <=> com_invocations' = RefMaxAttempts
          /\ CallRetries <=> com_invocations' < RefMaxAttempts
    /\ CallRetries => (pc' = pc /\ UNCHANGED <<failed_operations, print_results>>)

RefStemMatches ==
    {<<"Thursday.docx", "Thursday">>, <<"thursday.docx", "Thursday">>,
     <<"Thursday.DOCX", "Thursday">>, <<"THIRD Thursday.docx", "THIRD Thursday">>,
     <<"Thursday Night.docx", "Thursday Night">>}

\* The files of the listing that match the logical name being resolved.
Candidates ==
    {i \in 1..Len(arg_files) : <<arg_files[i].name, arg_template_name>> \in RefStemMatches}

\* C11: whatever find_template_file returns is a file of the folder that is non-empty
\* and whose stem equals the logical name case-insensitively, with the .docx extension;
\* in a readable folder that holds a non-empty Thursday.docx next to THIRD Thursday.docx
\* and/or Thursday Night.docx (and no other spelling of Thursday.docx), "Thursday"
\* resolves to Thursday.docx whatever the listing order.
C11_ExactStemOnly ==
    call_result # <<>> =>
        /\ call_result[1] # None =>
              \E i \in Candidates :
                  /\ arg_files[i].name = call_result[1]
                  /\ arg_files[i].size = "nonempty"
                  /\ arg_folder = "ok"
        /\ (/\ arg_folder = "ok"
            /\ arg_template_name = "Thursday"
            /\ \E i \in 1..Len(arg_files) :
                  arg_files[i] = [name |-> "Thursday.docx", size |-> "nonempty"]
            /\ \A i \in 1..Len(arg_files) :
                  arg_files[i].name \notin {"thursday.docx", "Thursday.DOCX"})
           => call_result[1] = "Thursday.docx"

C11_Witness ==
    /\ call_result = <<"Thursday.docx">>
    /\ arg_template_name = "Thursday"
    /\ arg_files = << [name |-> "THIRD Thursday.docx", size |-> "nonempty"],
                      [name |-> "Thursday Night.docx", size |-> "nonempty"],
                      [name |-> "Thursday.docx", size |-> "nonempty"] >>

\* C12: when more than one file of the folder matches the logical name equally well,
\* resolution does not return any of them (it fails with an ambiguous-template error).
C12_AmbiguousIsError ==
    (call_result # <<>> /\ arg_folder = "ok" /\ Cardinality(Candidates) > 1) =>
        \A i \in Candidates : call_result[1] # arg_files[i].name

\* The case of C12 as the code handles it: two spellings of the same name, the first
\* one of the listing is returned.
C12_Witness ==
    /\ arg_folder = "ok"
    /\ arg_template_name = "Thursday"
    /\ arg_files = << [name |-> "thursday.docx", size |-> "nonempty"],
                      [name |-> "Thursday.docx", size |-> "nonempty"] >>
    /\ call_result = <<"thursday.docx">>

(***************************************************************************)
(* Claims about the date rewrite (SpecRewrite)                             *)
(***************************************************************************)
\* The date 2026-01-15 written out in the two styles, token by token.
RefStyle1 == <<"Thursday", ",", "January", "15", ",", "2026">>
RefStyle2 == <<"Thursday", "January", "15", ",", "2026">>

\* The text is a correctly formatted date for 2026-01-15, alone or with one other
\* token before or after it.
HoldsFormattedDate(text) ==
    \/ text = RefStyle1
    \/ text = RefStyle2
    \/ \E t \in Tokens \ {DATE_PLACEHOLDER} : text = <<t>> \o RefStyle2 \/ text = RefStyle2 \o <<t>>

\* Number of day names in a text.
RECURSIVE CountDayNames(_)
CountDayNames(text) ==
    IF text = <<>> THEN 0
    ELSE (IF Head(text) \in {"Thursday", "Sunday"} THEN 1 ELSE 0) + CountDayNames(Tail(text))

\* C13: rewriting for day D a text that already holds a correctly formatted date for D
\* leaves it unchanged, and any rewrite for D after the first one changes nothing (no
\* day name is added).
C13_RewriteIdempotent ==
    [][/\ (rewrites = 0 /\ arg_dt = MkDate(2026, 1, 15) /\ HoldsFormattedDate(doc_text)) =>
             doc_text' = doc_text
       /\ rewrites >= 1 =>
             (doc_text' = doc_text /\ CountDayNames(doc_text') = CountDayNames(doc_text))]_vars

C13_Witness ==
    /\ rewrites = 2
    /\ arg_text = <<"Sunday", "Thursday", "January", "15", ",", "2026">>
    /\ doc_text = arg_text

(***************************************************************************)
(* Claims about the ranges that are rewritten (SpecStories)                *)
(***************************************************************************)
\* C14: when headers-only scope is requested, no find/replace call of the rewrite
\* targets a body-type range.
C14_HeadersOnlySkipsBody ==
    (call_result # <<>> /\ arg_headers_only) =>
        \A i \in 1..Len(call_result[1]) : call_result[1][i].kind # BodyStory

\* The case of C14 as the code handles it: headers-only is requested for a document
\* with a body and a header, and the first find/replace call is on the body.
C14_Witness ==
    /\ arg_headers_only
    /\ arg_stories = << [kind |-> "main_text", linked |-> 0],
                        [kind |-> "primary_header", linked |-> 1] >>
    /\ call_result # <<>>
    /\ Len(call_result[1]) = 9
    /\ call_result[1][1] = [kind |-> "main_text", link |-> 0]

(***************************************************************************)
(* Claims about the start command (SpecStart)                              *)
(***************************************************************************)
\* The reasons for which the inputs are not valid, one by one.
RefInvalidInputs ==
    \/ ui_inputs.day_folder = ""
    \/ ui_inputs.night_folder = ""
    \/ ui_inputs.printer_name \in {"", "Choose Printer"}
    \/ (ui_inputs.available_printers = <<"Printer A">> /\ ui_inputs.printer_name # "Printer A")
    \/ ui_inputs.start_date = NoDate
    \/ ui_inputs.end_date = NoDate
    \/ ui_inputs.end_date \in {MkDate(2026, 1, 13), MkDate(2027, 1, 14)}
    \/ ~ui_inputs.word_status
    \/ ui_inputs.day_folder = "invalid"
    \/ ui_inputs.night_folder = "invalid"
    \/ ui_inputs.day_lookup \in {"missing", "error"}
    \/ ui_inputs.night_lookup \in {"missing", "error"}

\* C15: when the inputs are not valid for any of these reasons, the start command
\* starts no worker (the application stays idle with the cancel flag and the run
\* parameters untouched), leaves the automation session untouched, and shows exactly
\* one validation warning: nothing else is done or retried.
C15_InvalidInputsStartNothing ==
    [][(pc = "done" /\ RefInvalidInputs /\ start_calls' = start_calls + 1) =>
           /\ pc' = "done"
           /\ UNCHANGED <<cancel_event, start_date, end_date, wp_vars, print_calls,
                          after_queue>>
           /\ \E m \in {validate_inputs(ui_inputs)} :
                 /\ m # ""
                 /\ ui_shown' = Append(ui_shown, ShowWarning("Validation Error", m))]_vars

C15_Witness ==
    /\ start_calls = 1
    /\ pc = "done"
    /\ ui_inputs.day_folder = "valid"
    /\ ui_inputs.night_folder = "valid"
    /\ ui_inputs.printer_name = "Printer A"
    /\ ui_inputs.end_date = MkDate(2026, 1, 14)
    /\ ui_inputs.start_date = MkDate(2026, 1, 14)
    /\ ui_inputs.word_status
    /\ ui_inputs.day_lookup = "found"
    /\ ui_inputs.night_lookup = "missing"
    /\ ui_shown = <<ShowWarning("Validation Error", "Missing required templates")>>
    /\ sessions_opened = 0

(***************************************************************************)
(* Claims about the connection to Word (Spec)                              *)
(***************************************************************************)
\* The run is past an initialize() that registered COM, got no application object from
\* any strategy, and so never opened a session.
ConnectFailed ==
    /\ pc \in {"except", "finally", "thread_exit", "done"}
    /\ wp_thread_id = WorkerThread
    /\ ~word_app
    /\ sessions_opened = 0

ErrorsShown == SelectSeq(after_queue, LAMBDA cb : cb.kind = "show_error")

\* C18: the search for a connection ends without a handle only after the last strategy
\* was tried; initialize then raises, which the run reports as one processing error; the
\* manager is not initialised, the COM registration it made is released, and the run
\* ends without one print_document call.
C18_ExhaustedStrategiesAbortRun ==
    /\ [](ConnectFailed =>
            /\ unwinding = "exception"
            /\ ~wp_initialized
            /\ com_registered = 0
            /\ print_calls = <<>>
            /\ print_results = <<>>
            /\ (pc \in {"finally", "thread_exit", "done"} => Len(ErrorsShown) = 1))
    /\ [][(pc = "dispatch" /\ pc' \notin {"dispatch", "configure"}) =>
            /\ strategy_idx = Len(dispatch_strategies)
            /\ pc' = "except"
            /\ ~word_app'
            /\ ~wp_initialized'
            /\ com_registered' = com_registered - 1]_vars

C18_Witness ==
    /\ ConnectFailed
    /\ pc = "done"
    /\ com_registered = 0
    /\ print_calls = <<>>
    /\ Len(ErrorsShown) = 1

(***************************************************************************)
(* Claims about an exception that escapes a job (Spec)                     *)
(***************************************************************************)
\* A print_document call of the run raised instead of returning.
JobRaised == \E i \in 1..Len(print_results) : print_results[i].raised

UiResets == SelectSeq(after_queue, LAMBDA cb : cb.kind = "reset_ui")

\* C17: once a print_document call has raised, it stays the last job of the run (no
\* later print_document call is made); the error is scheduled for display once, never
\* twice; the session the run opened is shut down (Quit requested once, handle and COM
\* registration released) before the error is handled; and the run ends with the UI
\* reset scheduled as its last callback.
C17_JobExceptionAbortsRun ==
    JobRaised =>
        /\ print_results[Len(print_results)].raised
        /\ Len(print_calls) = Len(print_results)
        /\ \A i \in 1..(Len(print_results) - 1) : ~print_results[i].raised
        /\ Len(ErrorsShown) <= 1
        /\ pc \in {"exit_with", "except", "finally", "thread_exit", "done"}
        /\ (pc \in {"except", "finally", "thread_exit", "done"}) =>
              /\ quit_calls = 1
              /\ releases = 1
              /\ ~word_app
              /\ ~wp_initialized
              /\ com_registered = 0
        /\ (pc \in {"finally", "thread_exit", "done"}) => Len(ErrorsShown) = 1
        /\ (pc = "done") =>
              /\ Len(UiResets) = 1
              /\ after_queue[Len(after_queue)] = ResetUi
              /\ after_queue[Len(after_queue) - 1] = ShowError("Processing Error")

C17_Witness ==
    /\ pc = "done"
    /\ RangeDays = 2
    /\ Len(print_results) = 2
    /\ ~print_results[1].raised
    /\ print_results[2].raised
    /\ Len(print_calls) = 2
    /\ quit_calls = 1
    /\ Len(ErrorsShown) = 1
    /\ Len(UiResets) = 1

(***************************************************************************)
(* Claims about the results shown after a run (SpecUi)                     *)
(***************************************************************************)
\* The run reached the end of the date loop, and the UI thread has run every callback
\* the finished worker scheduled.
CompletedNormally ==
    /\ pc = "done"
    /\ \E i \in 1..Len(after_queue) : after_queue[i] = StatusUpdate("Complete!", 100)

AllCallbacksRun == pc = "done" /\ ui_run = Len(after_queue)

\* The report the failed jobs of the run call for: the header, then one row per failed
\* job in job order.
RefReport ==
    LET failed == RefFailures(Len(print_results))
    IN  <<<<"date", "shift", "template", "error">>>> \o
        [i \in 1..Len(failed) |->
            <<<<failed[i].date.month, failed[i].date.day, failed[i].date.year>>,
              failed[i].shift, failed[i].template, failed[i].error>>]

SuccessShown == \E i \in 1..Len(ui_shown) : ui_shown[i].kind = "show_info"

SummaryShown ==
    \E i \in 1..Len(ui_shown) :
        ui_shown[i].kind = "show_warning" /\ ui_shown[i].msg = "Processing Completed with Errors"

ReportSaved == \E i \in 1..Len(ui_shown) : ui_shown[i].detail = "Failure report saved to"

\* C16 as stated: after a normal completion the UI has shown the success message and no
\* report exists when no job failed, and else the complete report exists and the failure
\* summary was shown instead of the success message.
C16_Original ==
    (CompletedNormally /\ AllCallbacksRun) =>
        IF failed_operations = <<>>
        THEN SuccessShown /\ ~SummaryShown /\ report_files = <<>>
        ELSE SummaryShown /\ ~SuccessShown /\ report_files = <<RefReport>>

\* C16: no report is ever written for a run without failures, and never a second one;
\* after a normal completion without failures the success message is shown and not the
\* summary; after one with failures the failure summary is shown and not the success
\* message, the report was attempted once, and when the summary names a saved report
\* that report is the header followed by one row per failed job in job order. A report
\* that could not be written whole holds only leading lines of it.
C16_CompletionReport ==
    /\ Len(report_files) <= 1
    /\ failed_operations = <<>> => report_files = <<>>
    /\ \A i \in 1..Len(report_files) :
          /\ Len(report_files[i]) <= Len(RefReport)
          /\ report_files[i] = SubSeq(RefReport, 1, Len(report_files[i]))
    /\ ReportSaved => report_files = <<RefReport>>
    /\ (CompletedNormally /\ AllCallbacksRun) =>
          IF failed_operations = <<>>
          THEN SuccessShown /\ ~SummaryShown
          ELSE SummaryShown /\ ~SuccessShown

C16_Witness ==
    /\ CompletedNormally
    /\ AllCallbacksRun
    /\ Len(failed_operations) = 2
    /\ ReportSaved
    /\ report_files = <<RefReport>>
    /\ Len(RefReport) = 3

(***************************************************************************)
(* Claims about the printer status query (SpecPrinter)                     *)
(***************************************************************************)
TimedOut == prn_pc = "executor_exit"

\* C19: whenever the timeout elapses with the query still running, the readiness check
\* goes on to return (ready, no error), whether or not the driver call ever returns.
C19_TimeoutReturnsReady ==
    TimedOut ~> (prn_pc = "returned" /\ prn_result = <<Ready>>)

\* The timeout has elapsed on a driver call that never returns, and the calling thread
\* is in the executor's shutdown.
C19_Witness ==
    /\ TimedOut
    /\ prn_input.driver = "hangs"
    /\ prn_future = "running"
    /\ prn_result = <<>>

(***************************************************************************)
(* Claims about thread affinity (SpecManager)                              *)
(***************************************************************************)
SafeComCallStep == mgr_calls' = mgr_calls + 1 /\ mgr_op' = "safe_com_call"

\* C20: the manager records the thread of the initialize() that opens a session and
\* keeps it while the session lasts; a safe_com_call from any other thread raises the
\* wrong-thread error with no invocation of the host function (so without a retry) and
\* leaves the session as it is; a safe_com_call from the recorded thread, or on a manager
\* that never registered a thread, is never answered with that error and invokes the
\* host function at least once.
C20_ThreadAffinity ==
    /\ [][(mgr_op' = "initialize" /\ mgr_calls' = mgr_calls + 1 /\ ~wp_initialized
             /\ wp_initialized') => wp_thread_id' = mgr_thread']_vars
    /\ [][(wp_initialized /\ wp_initialized') => wp_thread_id' = wp_thread_id]_vars
    /\ [][SafeComCallStep =>
            IF wp_thread_id \in Threads /\ mgr_thread' # wp_thread_id
            THEN /\ last_error' = ErrWrongThread
                 /\ com_invocations' = 0
                 /\ UNCHANGED wp_vars
            ELSE /\ last_error' # ErrWrongThread
                 /\ com_invocations' >= 1]_vars

C20_Witness ==
    /\ mgr_op = "safe_com_call"
    /\ wp_initialized
    /\ wp_thread_id = WorkerThread
    /\ mgr_thread = UiThread
    /\ last_error = ErrWrongThread
    /\ com_invocations = 0

(***************************************************************************)
(* Claims about the failure list at the end of a run (SpecUi)              *)
(***************************************************************************)
\* The run ended by the return of a cancel check.
RunCancelled ==
    /\ pc = "done"
    /\ ~RunRaised
    /\ ~CompletedNormally

\* C21: a failure record, once appended, stays in the list at its place; and when the
\* run has ended, in whichever way, and the UI thread has run every callback the worker
\* scheduled, a report holds a row for every failure record of the run.
C21_FailuresFlushed ==
    /\ [][/\ Len(failed_operations') >= Len(failed_operations)
          /\ SubSeq(failed_operations', 1, Len(failed_operations)) = failed_operations]_vars
    /\ []((AllCallbacksRun /\ failed_operations # <<>>) =>
             \E i \in 1..Len(report_files) : report_files[i] = RefReport)

\* A run that was cancelled after a job had failed has ended, every callback has run,
\* and no report was written.
C21_Witness ==
    /\ RunCancelled
    /\ AllCallbacksRun
    /\ Len(failed_operations) = 1
    /\ report_files = <<>>
    /\ ~SummaryShown

(***************************************************************************)
(* C22: at most one worker thread. Under SpecApp, a start command or an    *)
(* Escape command issued while the worker is alive sets the cancel flag,   *)
(* disables the button and leaves the worker, its parameters, the inputs   *)
(* and the count of started threads as they are; an Escape command issued  *)
(* with no worker alive changes nothing; and a thread is started only      *)
(* when none is alive.                                                     *)
(***************************************************************************)
StartCommand == start_calls' = start_calls + 1

sched_vars_but_cancel_calls ==
    <<arg_dt, arg_shift_type, call_result, arg_folder, arg_files, arg_template_name,
      arg_text, doc_text, rewrites, arg_stories, arg_headers_only, ui_inputs, ui_shown,
      start_calls, batch_params, ui_vars, prn_vars, mgr_vars, btn_state, btn_text, inputs_enabled,
      closing, destroyed, threads_started, ui_pc>>

EscapeCommand == cancel_calls' = cancel_calls + 1

C22_SingleWorker ==
    [][/\ ((StartCommand \/ EscapeCommand) /\ pc # "done") =>
             /\ cancel_event'
             /\ btn_state' = "disabled"
             /\ threads_started' = threads_started
             /\ UNCHANGED <<pc, start_date, end_date, dates, date_idx, job_index,
                            failed_operations, after_queue, inputs_enabled, btn_text>>
       /\ (EscapeCommand /\ pc = "done") =>
             UNCHANGED <<sched_vars_but_cancel_calls, run_vars, wp_vars, call_vars, init_vars>>
       /\ (threads_started' # threads_started) =>
             /\ pc = "done"
             /\ pc' = "begin"
             /\ threads_started' = threads_started + 1]_vars

C22_Witness ==
    /\ threads_started = 1
    /\ start_calls = 2
    /\ cancel_calls = 1
    /\ pc \notin {"done", "begin"}
    /\ cancel_event
    /\ btn_state = "disabled"

(***************************************************************************)
(* C23: every invocation of the worker schedules the UI reset. Under       *)
(* SpecWorker, once _process_batch has returned while the window is not    *)
(* closing, reset_ui is among the scheduled callbacks; and once every      *)
(* scheduled callback has run with the window open, the inputs are enabled *)
(* and the button reads START EXECUTION again.                             *)
(***************************************************************************)
WorkerReturned == pc \in {"thread_exit", "done"}

ResetScheduled == \E i \in 1..Len(after_queue) : after_queue[i] = ResetUi

InitializeCall == mgr_calls' = mgr_calls + 1 /\ mgr_op' = "initialize"

C24_InitializeIdempotent ==
    /\ [][(InitializeCall /\ wp_initialized) => UNCHANGED <<wp_vars, wp_thread_id>>]_vars
    /\ [](sessions_opened - releases <= 1 /\ com_registered <= 1)

\* initialize() was just called from the other thread on a manager that stays
\* initialised on the thread of the first call.
C24_Witness ==
    /\ mgr_op = "initialize"
    /\ wp_initialized
    /\ word_app
    /\ sessions_opened = 1
    /\ releases = 0
    /\ wp_thread_id # None
    /\ mgr_thread # wp_thread_id

(***************************************************************************)
(* C25: shutdown() never propagates a failure of Quit. Under SpecManager a *)
(* shutdown() call on a manager that holds a handle requests Quit once,    *)
(* returns to its caller whether or not Quit raised, and leaves the handle *)
(* released, the manager not initialised and the COM registration of the   *)
(* thread released.                                                        *)
(***************************************************************************)
ShutdownCall == mgr_calls' = mgr_calls + 1 /\ mgr_op' = "shutdown"

C25_ShutdownAlwaysReleases ==
    [][(ShutdownCall /\ word_app) =>
          /\ quit_calls' = quit_calls + 1
          /\ mgr_raised' = None
          /\ ~word_app'
          /\ ~wp_initialized'
          /\ com_registered' = com_registered - 1]_vars

\* shutdown() has just returned from an initialised manager whose Quit raised.
C25_Witness ==
    /\ mgr_op = "shutdown"
    /\ quit_raised
    /\ mgr_raised = None
    /\ sessions_opened = 1
    /\ quit_calls = 1
    /\ ~word_app
    /\ ~wp_initialized
    /\ com_registered = 0

(***************************************************************************)
(* C26: large batches are confirmed. As stated, with the job count: under  *)
(* SpecStart a start command that starts the worker for a range whose job  *)
(* count exceeds LARGE_BATCH_THRESHOLD has asked for the confirmation and  *)
(* got a yes.                                                              *)
(***************************************************************************)
BatchOfInputs == compute_batch_size(ui_inputs.start_date, ui_inputs.end_date)

ThreadStarted == threads_started' = threads_started + 1

Confirmed == ui_shown' = Append(ui_shown, AskYesNo("yes"))

C26_Original ==
    [][(ThreadStarted /\ BatchOfInputs.total_jobs > LARGE_BATCH_THRESHOLD) => Confirmed]_vars

(***************************************************************************)
(* C26 as the code has it, with the day count: under SpecStart a start     *)
(* command on valid inputs with no worker alive asks for the confirmation  *)
(* exactly when the range has at least LARGE_BATCH_THRESHOLD days; the     *)
(* worker is then started only on a yes, and on a no nothing is started,   *)
(* the inputs stay enabled and the status reads "Cancelled by user".       *)
(***************************************************************************)
C26_LargeBatchConfirmed ==
    [][(StartCommand /\ pc = "done" /\ validate_inputs(ui_inputs) = "") =>
          IF BatchOfInputs.total_days >= LARGE_BATCH_THRESHOLD
          THEN IF ui_inputs.confirm
               THEN ThreadStarted /\ Confirmed /\ pc' = "begin"
               ELSE /\ ui_shown' = ui_shown \o <<AskYesNo("no"), UiStatus("Cancelled by user")>>
                    /\ inputs_enabled /\ inputs_enabled'
                    /\ UNCHANGED <<pc, threads_started, cancel_event, btn_text, btn_state>>
          ELSE ThreadStarted /\ pc' = "begin" /\ UNCHANGED ui_shown]_vars

\* The user declined a batch of exactly LARGE_BATCH_THRESHOLD days.
C26_Witness ==
    /\ start_calls = 1
    /\ ui_shown = <<AskYesNo("no"), UiStatus("Cancelled by user")>>
    /\ BatchOfInputs.total_days = LARGE_BATCH_THRESHOLD
    /\ pc = "done"
    /\ threads_started = 0
    /\ inputs_enabled

(***************************************************************************)
(* C27: an invalid folder is told apart from a missing template. Under     *)
(* SpecResolve, resolving in a folder that fails validation or cannot be   *)
(* listed gives a result other than None, which is the result of a valid   *)
(* folder that lacks the template.                                         *)
(***************************************************************************)
C27_InvalidFolderDistinguished ==
    (call_result # <<>> /\ arg_folder # "ok") => call_result[1] # None

\* find_template_file returned None for a folder that failed validation.
C27_Witness ==
    /\ call_result = <<None>>
    /\ arg_folder = "invalid"

StrategyIndex(name) == CHOOSE i \in 1..Len(dispatch_strategies) : dispatch_strategies[i] = name

AttemptStep == pc = "dispatch" /\ last_attempt' # last_attempt

C29_StrategyOrder ==
    /\ [](dispatch_strategies = <<"GetObject", "Dynamic Dispatch", "DispatchEx",
                                   "Standard Dispatch", "Subprocess Launch">>)
    /\ [][AttemptStep =>
             /\ last_attempt' # NoAttempt
             /\ IF last_attempt = NoAttempt
                THEN /\ last_attempt'.strategy = dispatch_strategies[1]
                     /\ last_attempt'.attempt = 1
                ELSE /\ last_attempt.outcome # "verified"
                     /\ \/ /\ last_attempt'.strategy = last_attempt.strategy
                           /\ last_attempt'.attempt = last_attempt.attempt + 1
                        \/ /\ StrategyIndex(last_attempt'.strategy) =
                                  StrategyIndex(last_attempt.strategy) + 1
                           /\ last_attempt'.attempt = 1
             /\ (last_attempt'.outcome = "verified") <=> (pc' = "configure" /\ word_app')
             /\ (last_attempt'.outcome # "verified") => ~word_app']_vars
    /\ [](pc = "configure" => (word_app /\ last_attempt.outcome = "verified"))

\* The third strategy gave a verified handle on its second attempt.
C29_Witness ==
    /\ pc = "configure"
    /\ word_app
    /\ last_attempt = [strategy |-> "DispatchEx", attempt |-> 2, outcome |-> "verified",
                       recovery |-> FALSE]

(***************************************************************************)
(* C30: recovery and retry within one strategy. Under Spec, after an       *)
(* attempt, not the last of its strategy, whose handle failed verification *)
(* or which raised a cache error, the recovery step has run and the same   *)
(* strategy is about to be attempted again.                                *)
(***************************************************************************)
C30_RecoveryBeforeRetry ==
    (/\ pc = "dispatch"
     /\ last_attempt # NoAttempt
     /\ last_attempt.outcome \in {"unverified", "cache_error"}
     /\ last_attempt.attempt < COM_INIT_MAX_RETRIES_PER_METHOD) =>
        /\ last_attempt.recovery
        /\ dispatch_strategies[strategy_idx] = last_attempt.strategy
        /\ dispatch_attempt = last_attempt.attempt + 1

\* A handle failed verification on attempt 1: the strategy is about to be attempted
\* again and no recovery has run.
C30_Witness ==
    /\ pc = "dispatch"
    /\ last_attempt = [strategy |-> "GetObject", attempt |-> 1, outcome |-> "unverified",
                       recovery |-> FALSE]
    /\ strategy_idx = 1
    /\ dispatch_attempt = 2

(***************************************************************************)
(* C31: the first matching day-name pattern stops the group. Under         *)
(* SpecRewrite, among the passes of one replace_dates call whose find text *)
(* starts with a day name (style 1, style 2), no pass is executed after a  *)
(* pass whose Find.Execute found a match.                                  *)
(***************************************************************************)
DayNamePasses == {"style1", "style2"}

C31_FirstMatchStopsGroup ==
    \A i, j \in 1..Len(call_result) :
        (/\ i < j
         /\ call_result[i].pass \in DayNamePasses
         /\ call_result[j].pass \in DayNamePasses) => ~call_result[i].success

\* Style 1 matched "Sunday, January 04, 2026" and style 2 was executed after it.
C31_Witness ==
    /\ rewrites = 1
    /\ arg_text = <<"Sunday", ",", "January", "04", ",", "2026">>
    /\ call_result = <<[pass |-> "placeholder", success |-> FALSE],
                       [pass |-> "style1", success |-> TRUE],
                       [pass |-> "style2", success |-> FALSE]>>

(***************************************************************************)
(* C32: within a job the host operations occur in the order open, rewrite, *)
(* set printer, print, close. A document is printed only after its date    *)
(* rewrite completed without error and only while the target printer is    *)
(* the active printer, and after a step that failed the job performs none  *)
(* of the later steps except closing the document (the restore of the      *)
(* previous printer in the finally clause is not one of the five steps).   *)
(***************************************************************************)
StepRank(op) ==
    CASE op = "open" -> 1
      [] op = "rewrite" -> 2
      [] op \in {"get_printer", "set_printer"} -> 3
      [] op = "print" -> 4
      [] op = "close" -> 5
      [] op = "cleanup_close" -> 6
      [] OTHER -> 0

JobSteps == {i \in 1..Len(host_log) : StepRank(host_log[i].op) > 0}

C32_StepOrder ==
    /\ \A i, j \in JobSteps : i < j => StepRank(host_log[i].op) < StepRank(host_log[j].op)
    /\ \A j \in JobSteps :
          host_log[j].op = "print" =>
              \E i \in 1..(j - 1) : host_log[i] = [op |-> "rewrite", ok |-> TRUE]
    /\ pc = "printout" => active_printer = TargetPrinter
    /\ \A i, j \in JobSteps :
          (i < j /\ ~host_log[i].ok) => host_log[j].op = "cleanup_close"

C32_Witness ==
    /\ [i \in 1..Len(host_log) |-> host_log[i].op]
          = <<"open", "rewrite", "set_printer", "print", "restore_printer", "close">>
    /\ \A i \in 1..Len(host_log) : host_log[i].ok
    /\ pc # "close"

(***************************************************************************)
(* C36: every document a job opened has had a close without saving         *)
(* requested before print_document returns, on success and on every        *)
(* failure after the open; on the success path the close is requested      *)
(* exactly once (one safe_com_call of doc.Close, no cleanup close), and a  *)
(* failing cleanup close never replaces the job's original error.          *)
(***************************************************************************)
\* print_document is between Documents.Add and its return.
InPrintDocument ==
    pc \in {"add", "unprotect", "replace", "set_printer", "printout", "restore", "close",
            "cleanup"}

\* The last job opened a document.
DocOpened == \E i \in 1..Len(host_log) : host_log[i] = [op |-> "open", ok |-> TRUE]

CloseRequests == {i \in 1..Len(host_log) : host_log[i].op \in {"close", "cleanup_close"}}

LastResult == print_results[Len(print_results)]

C36_AlwaysClosed ==
    (~InPrintDocument /\ DocOpened) =>
        /\ CloseRequests # {}
        /\ LastResult.success =>
              /\ Cardinality(CloseRequests) = 1
              /\ \A i \in CloseRequests : host_log[i] = [op |-> "close", ok |-> TRUE]
        /\ ~LastResult.success =>
              /\ host_log[Len(host_log)].op = "cleanup_close"
              /\ job_error # ""
              /\ LastResult.error = job_error

C36_Witness ==
    /\ ~InPrintDocument
    /\ [i \in 1..Len(host_log) |-> host_log[i].op]
          = <<"open", "rewrite", "set_printer", "print", "restore_printer", "cleanup_close">>
    /\ ~host_log[4].ok
    /\ ~host_log[6].ok
    /\ LastResult.error = ErrOther

(***************************************************************************)
(* C37: a job leaves the host's active-printer setting as it found it      *)
(***************************************************************************)
\* The job made the target printer the active printer.
Switched == \E i \in 1..Len(host_log) : host_log[i] = [op |-> "set_printer", ok |-> TRUE]

RestoreAttempted == \E i \in 1..Len(host_log) : host_log[i].op = "restore_printer"

RestoreFailed ==
    \E i \in 1..Len(host_log) : host_log[i] = [op |-> "restore_printer", ok |-> FALSE]

\* The job has read the active printer and is past the finally clause of the inner try.
PastRestore == old_printer # None /\ pc \notin {"printout", "restore"}

\* Nothing but the restore of the printer failed in the job that has returned.
OnlyRestoreFailed ==
    /\ ~InPrintDocument
    /\ RestoreFailed
    /\ \A i \in 1..Len(host_log) : host_log[i].op # "restore_printer" => host_log[i].ok
    /\ \E i \in 1..Len(host_log) : host_log[i].op = "close"

C33_ReadyMeansConfigured ==
    /\ wp_initialized => (word_app /\ host_settings = HostConfigured)
    /\ (mgr_op = "initialize" /\ mgr_raised = "RuntimeError") => ~wp_initialized

\* initialize() has just returned with every setting applied.
C33_Witness ==
    /\ mgr_op = "initialize"
    /\ mgr_raised = None
    /\ wp_initialized
    /\ host_settings = HostConfigured

(***************************************************************************)
(* C34: the run parameters are collected from the UI once, on the          *)
(* foreground thread, when the worker is started; every job of the run is  *)
(* made from that snapshot, and an edit of the UI during the run changes   *)
(* neither the snapshot nor any job.                                       *)
(***************************************************************************)
Snapshot == <<batch_params, start_date, end_date>>

\* The job was made from the snapshot of the run.
FromSnapshot(job) ==
    /\ job.printer_name = batch_params.printer_name
    /\ job.folder = (IF job.shift = "day" THEN batch_params.day_folder
                     ELSE batch_params.night_folder)
    /\ ToOrdinal(start_date) <= ToOrdinal(job.date)
    /\ ToOrdinal(job.date) <= ToOrdinal(end_date)

C34_WorkerUsesSnapshot ==
    /\ [](\A i \in 1..Len(print_calls) : FromSnapshot(print_calls[i]))
    /\ [][/\ Snapshot' # Snapshot =>
               /\ ~thread_alive
               /\ pc' = "begin"
               /\ Snapshot' = <<collect_params(ui_inputs), ui_inputs.start_date,
                                ui_inputs.end_date>>
          /\ ui_inputs' # ui_inputs => UNCHANGED <<Snapshot, print_calls, dates>>]_vars

\* The night job of a run is under way with the folders and the printer of the
\* snapshot while the UI holds another printer and other folders.
C34_Witness ==
    /\ pc = "printing"
    /\ Len(print_calls) = 2
    /\ print_calls[2].folder = "valid"
    /\ print_calls[2].printer_name = TargetPrinter
    /\ ui_inputs.night_folder = ""
    /\ ui_inputs.printer_name = "Printer X"

(***************************************************************************)
(* C35: for every date is_third_thursday (a Thursday whose day of month is *)
(* between 15 and 21) agrees with the calendar version that picks the      *)
(* third Thursday entry of the month's calendar, and it is true exactly on *)
(* the third Thursday of a month.                                          *)
(***************************************************************************)
C35_AgreesWithCalendar ==
    call_result # <<>> =>
        /\ call_result[1].scheduler = call_result[1].calendar
        /\ call_result[1].scheduler = RefThirdThursday(arg_dt)

\* The latest third Thursday there is: January 21, 2027.
C35_Witness ==
    /\ call_result # <<>>
    /\ arg_dt = MkDate(2027, 1, 21)
    /\ call_result[1].scheduler
    /\ call_result[1].calendar

(***************************************************************************)
(* C38: over any sequence of initialize() and shutdown() calls every       *)
(* successful registration of the threading model is released exactly      *)
(* once: the registrations not yet released are one while the manager is   *)
(* initialised and none otherwise, never fewer than none; and after an     *)
(* initialize() that failed the manager references no host handle.         *)
(***************************************************************************)
C38_RegistrationBalanced ==
    /\ com_registered = (IF wp_initialized THEN 1 ELSE 0)
    /\ (mgr_op = "initialize" /\ mgr_raised = "RuntimeError") => ~word_app

\* initialize() failed at a setter and left the handle in word_app; the shutdown() that
\* followed released the registration a second time.
C38_Witness ==
    /\ mgr_op = "shutdown"
    /\ mgr_calls = 2
    /\ quit_calls = 1
    /\ sessions_opened = 0
    /\ com_registered = -1

(***************************************************************************)
(* C39: a cancel request issued for one run never affects a later run. A   *)
(* worker is started only when no worker is alive, and in the step that    *)
(* starts it the cancel flag is clear; the flag is raised only while a     *)
(* worker is alive, so what a run observes was raised during that run.     *)
(***************************************************************************)
\* This step starts a worker thread.
WorkerStarts == threads_started' = threads_started + 1

C39_CancelDoesNotCarryOver ==
    [][/\ WorkerStarts => (~thread_alive /\ pc' = "begin" /\ ~cancel_event')
       /\ (cancel_event' /\ ~cancel_event) => (thread_alive /\ ~WorkerStarts)]_vars

\* The stop button was used on the first run just before its worker returned, the
\* second start command has started the next run, and that run is printing with the
\* flag clear.
C39_Witness ==
    /\ start_calls = 2
    /\ threads_started = 1
    /\ Len(ui_shown) >= 1
    /\ ui_shown[1] = UiStatus("Stopping after current document...")
    /\ pc = "printing"
    /\ ~cancel_event

(***************************************************************************)
(* C40: after a worker has terminated, and unless the window is closing,   *)
(* the start button eventually returns to the enabled state, whenever a    *)
(* cancel request (button or Escape) arrives while the worker is           *)
(* finishing: the UI never stays disabled with no worker alive.            *)
(***************************************************************************)
C40_ButtonReenabled ==
    (~thread_alive /\ ~closing) ~> (btn_state = "normal" \/ closing \/ thread_alive)

\* The reset of the UI has run, Escape arrived before the worker's thread had ended,
\* and the thread has ended since: the button is disabled, no callback is queued and
\* no worker is alive.
C40_Witness ==
    /\ ~thread_alive
    /\ ~closing
    /\ start_date # NoDate
    /\ cancel_calls = 1
    /\ btn_state = "disabled"
    /\ btn_text = "START EXECUTION"
    /\ ui_run = Len(after_queue)

====
